---- MODULE Spec2Model ----
(***************************************************************************)
(* A model of the shooting blocks of spiral2.py (rally12/neuro_shooting):  *)
(* the state codec (assemble / disassemble), the closed-form parameter     *)
(* derivation (compute_theta / compute_bias), the inner gradient-descent   *)
(* solve (compute_gradients) and the right-hand-side evaluators (forward)  *)
(* of ShootingBlock, ShootingBlock2, ShootingBlockMN and                   *)
(* ShootingBlockMNModel2.                                                  *)
(*                                                                         *)
(* Numbers are exact rationals <<numerator, denominator>>.  A tensor is a  *)
(* record [shape, el]: shape is torch's size() and el the nested sequences *)
(* of its entries.                                                         *)
(***************************************************************************)
EXTENDS Integers, Sequences, FiniteSets, TLC

\* ------------------------------------------------------------- bounds

\* Largest number of particles K (self.k) of a single-particle-set model.
MaxK == 2
\* Largest number of data rows B carried by a state handed to forward.
MaxB == 1
\* Largest size, along the axis it is split on, of a tensor handed to disassemble.
MaxRows == 9
\* Largest number of time points of a trajectory handed to disassemble(dim=1).
MaxT == 2
\* Largest number of forward calls the solver makes in one run of the model.
MaxCalls == 2
\* Largest axis value handed to disassemble.
MaxDim == 3
\* Largest number of codec operations applied in a row to one value.
MaxOps == 2
\* Largest number of particles K per particle set of the coupled model.
MaxKCoupled == 1

\* ---------------------------------------------------------- rationals

Abs(n) == IF n < 0 THEN -n ELSE n

Min(a, b) == IF a < b THEN a ELSE b

Max(a, b) == IF a < b THEN b ELSE a

RECURSIVE GCD(_, _)
GCD(a, b) == IF b = 0 THEN a ELSE GCD(b, a % b)

\* n/d divided through by the common divisor g of n and d.
Lowest(n, d, g) == <<n \div g, d \div g>>

\* The rational n/d (d # 0) in lowest terms with a positive denominator.
Q(n, d) ==
    IF n = 0 THEN <<0, 1>>
    ELSE Lowest(IF d < 0 THEN -n ELSE n, Abs(d), GCD(Abs(n), Abs(d)))

Zero == <<0, 1>>

One == <<1, 1>>

RNeg(x) == <<-x[1], x[2]>>

\* x + y over the common denominator l.
OverDenominator(x, y, l) == Q(x[1] * (l \div x[2]) + y[1] * (l \div y[2]), l)

RAdd(x, y) == OverDenominator(x, y, (x[2] \div GCD(x[2], y[2])) * y[2])

RSub(x, y) == RAdd(x, RNeg(y))

\* x * y with the common divisors g1 of x's numerator and y's denominator and
\* g2 of y's numerator and x's denominator cancelled.
Cancelled(x, y, g1, g2) ==
    <<(x[1] \div g1) * (y[1] \div g2), (x[2] \div g2) * (y[2] \div g1)>>

RMul(x, y) ==
    IF x[1] = 0 \/ y[1] = 0 THEN Zero
    ELSE Cancelled(x, y, GCD(Abs(x[1]), y[2]), GCD(Abs(y[1]), x[2]))

RLt(x, y) == RSub(x, y)[1] < 0

RLe(x, y) == RSub(x, y)[1] <= 0

\* The sum of the first n entries of a sequence of rationals, and of all.
RECURSIVE RSumTo(_, _)
RSumTo(s, n) == IF n = 0 THEN Zero ELSE RAdd(RSumTo(s, n - 1), s[n])

RSum(s) == RSumTo(s, Len(s))

\* ----------------------------------------------------------- matrices
\* A matrix is the sequence of its rows; a batch is a sequence of matrices.

\* An operand is compared with itself before a function constructor refers to
\* it: TLC then evaluates the operand once, not once per entry built.
Evaluated(v) == v = v

NRows(A) == Len(A)

NCols(A) == IF A = <<>> THEN 0 ELSE Len(A[1])

\* torch.mm / torch.matmul of two matrices.
Mm(A, B) ==
    IF Evaluated(A) /\ Evaluated(B)
    THEN [i \in 1..NRows(A) |->
             [j \in 1..NCols(B) |->
                 RSum([m \in 1..NCols(A) |-> RMul(A[i][m], B[m][j])])]]
    ELSE <<>>

\* Tensor.t() of a matrix.
MT(A) ==
    IF Evaluated(A)
    THEN [j \in 1..NCols(A) |-> [i \in 1..NRows(A) |-> A[i][j]]]
    ELSE <<>>

MAdd(A, B) ==
    IF Evaluated(A) /\ Evaluated(B)
    THEN [i \in 1..NRows(A) |-> [j \in 1..NCols(A) |-> RAdd(A[i][j], B[i][j])]]
    ELSE <<>>

MSub(A, B) ==
    IF Evaluated(A) /\ Evaluated(B)
    THEN [i \in 1..NRows(A) |-> [j \in 1..NCols(A) |-> RSub(A[i][j], B[i][j])]]
    ELSE <<>>

\* Element-wise product of two matrices of one shape.
MHad(A, B) ==
    IF Evaluated(A) /\ Evaluated(B)
    THEN [i \in 1..NRows(A) |-> [j \in 1..NCols(A) |-> RMul(A[i][j], B[i][j])]]
    ELSE <<>>

MScale(c, A) ==
    IF Evaluated(c) /\ Evaluated(A)
    THEN [i \in 1..NRows(A) |-> [j \in 1..NCols(A) |-> RMul(c, A[i][j])]]
    ELSE <<>>

MNeg(A) == MScale(<<-1, 1>>, A)

\* torch.eye(n), torch.zeros(r, c).
Eye(n) == [i \in 1..n |-> [j \in 1..n |-> IF i = j THEN One ELSE Zero]]

Zeros(r, c) == [i \in 1..r |-> [j \in 1..c |-> Zero]]

\* The sum of a sequence of matrices of shape r x c.
RECURSIVE MSumSeq(_, _, _)
MSumSeq(s, r, c) ==
    IF s = <<>> THEN Zeros(r, c) ELSE MAdd(Head(s), MSumSeq(Tail(s), r, c))

\* Tensor.view(-1, 1): the entries in row-major order, as a column.
ViewCol(A) ==
    IF Evaluated(A)
    THEN [m \in 1..(NRows(A) * NCols(A)) |->
             <<A[((m - 1) \div NCols(A)) + 1][((m - 1) % NCols(A)) + 1]>>]
    ELSE <<>>

\* Tensor.view(r, c) of a column of r*c entries.
ViewAs(v, r, c) ==
    IF Evaluated(v) /\ Evaluated(r) /\ Evaluated(c)
    THEN [i \in 1..r |-> [j \in 1..c |-> v[(i - 1) * c + j][1]]]
    ELSE <<>>

\* ------------------------------------------------------------ tensors

Tensor(shape, el) == [shape |-> shape, el |-> el]

\* The rows a..b-1 (0-based, clamped as Python slicing clamps) of a sequence.
SliceSeq(s, a, b) ==
    LET lo == Min(a, Len(s))
        hi == Min(b, Len(s))
    IN  IF Evaluated(s) /\ Evaluated(lo)
        THEN [i \in 1..Max(0, hi - lo) |-> s[lo + i]]
        ELSE <<>>

\* input[a:b, ...]
Slice0(t, a, b) ==
    LET el == SliceSeq(t.el, a, b)
    IN  Tensor([t.shape EXCEPT ![1] = Len(el)], el)

\* input[:, a:b, ...]
Slice1(t, a, b) ==
    LET n == Max(0, Min(b, t.shape[2]) - Min(a, t.shape[2]))
    IN  IF Evaluated(t) /\ Evaluated(a) /\ Evaluated(b)
        THEN Tensor([t.shape EXCEPT ![2] = n],
                    [i \in 1..t.shape[1] |-> SliceSeq(t.el[i], a, b)])
        ELSE t

\* Tensor.transpose(1, 2) of a 3-D tensor.
Transpose12(t) ==
    IF Evaluated(t)
    THEN Tensor(<<t.shape[1], t.shape[3], t.shape[2]>>,
                [i \in 1..t.shape[1] |-> [r \in 1..t.shape[3] |->
                    [c \in 1..t.shape[2] |-> t.el[i][c][r]]]])
    ELSE t

RECURSIVE ConcatAll(_)
ConcatAll(s) == IF s = <<>> THEN <<>> ELSE Head(s) \o ConcatAll(Tail(s))

RECURSIVE SumLen(_)
SumLen(s) == IF s = <<>> THEN 0 ELSE Head(s) + SumLen(Tail(s))

\* torch.cat accepts tensors whose sizes agree in every dimension but the first.
CatOk(ts) ==
    Evaluated(ts) /\ \A i \in 1..Len(ts) : \A j \in 1..Len(ts) :
        /\ Len(ts[i].shape) = Len(ts[j].shape)
        /\ Tail(ts[i].shape) = Tail(ts[j].shape)

\* torch.cat(ts) (dim = 0).
Cat0(ts) ==
    IF Evaluated(ts)
    THEN Tensor(<<SumLen([i \in 1..Len(ts) |-> ts[i].shape[1]])>> \o Tail(ts[1].shape),
                ConcatAll([i \in 1..Len(ts) |-> ts[i].el]))
    ELSE ts[1]

\* -------------------------------------------------------------- codec

\* A packing that exchanges the two data blocks.
assemble_data_exchanged(q1, q2, p1, p2, x1, x2) == Cat0(<<q1, q2, p1, p2, x2, x1>>)

\* ShootingBlockMNModel2.assemble: torch.cat((q1,q2,p1,p2,x1,x2)).
assemble(q1, q2, p1, p2, x1, x2) == Cat0(<<q1, q2, p1, p2, x1, x2>>)

\* torch.cat raises RuntimeError when the blocks' trailing sizes differ.
assemble_ok(q1, q2, p1, p2, x1, x2) == CatOk(<<q1, q2, p1, p2, x1, x2>>)

\* An axis test that accepts every non-negative axis.
disassemble_ok_any_axis(dim) == dim >= 0

\* The axis values disassemble accepts.
disassemble_ok(dim) == dim = 0 \/ dim = 1

\* An unpacking that gives the second data block as many rows as the first, so
\* that the last row of an odd data part is in no block.
disassemble_even_data(k, input, dim) ==
    IF dim = 0
    THEN LET x12    == Slice0(input, 4 * k, input.shape[1])
             x12_nr == x12.shape[1] \div 2
         IN  << Slice0(input, 0, k),
                Slice0(input, k, 2 * k),
                Slice0(input, 2 * k, 3 * k),
                Slice0(input, 3 * k, 4 * k),
                Slice0(x12, 0, x12_nr),
                Slice0(x12, x12_nr, 2 * x12_nr) >>
    ELSE LET x12    == Slice1(input, 4 * k, input.shape[2])
             x12_nr == x12.shape[2] \div 2
         IN  << Slice1(input, 0, k),
                Slice1(input, k, 2 * k),
                Slice1(input, 2 * k, 3 * k),
                Slice1(input, 3 * k, 4 * k),
                Slice1(x12, 0, x12_nr),
                Slice1(x12, x12_nr, 2 * x12_nr) >>

\* ShootingBlockMNModel2.disassemble for an accepted axis: <<q1,q2,p1,p2,x1,x2>>.
disassemble(k, input, dim) ==
    IF dim = 0
    THEN LET x12    == Slice0(input, 4 * k, input.shape[1])
             x12_nr == x12.shape[1] \div 2
         IN  << Slice0(input, 0, k),
                Slice0(input, k, 2 * k),
                Slice0(input, 2 * k, 3 * k),
                Slice0(input, 3 * k, 4 * k),
                Slice0(x12, 0, x12_nr),
                Slice0(x12, x12_nr, x12.shape[1]) >>
    ELSE LET x12    == Slice1(input, 4 * k, input.shape[2])
             x12_nr == x12.shape[2] \div 2
         IN  << Slice1(input, 0, k),
                Slice1(input, k, 2 * k),
                Slice1(input, 2 * k, 3 * k),
                Slice1(input, 3 * k, 4 * k),
                Slice1(x12, 0, x12_nr),
                Slice1(x12, x12_nr, x12.shape[2]) >>

\* ------------------------------------------------------ nonlinearities

\* The feature dimension of every model below (batch_y0.size()[2]; the
\* spiral data is 2-dimensional).
FeatureDim == 2

\* torch.tanh and torch.sigmoid at the entries the states below carry, rounded
\* to small rationals (tanh(1) = 0.7616, sigmoid(1) = 0.7311).
torch_tanh(x) ==
    CASE x = <<0, 1>>  -> <<0, 1>>
      [] x = <<1, 1>>  -> <<16, 21>>
      [] x = <<-1, 1>> -> <<-16, 21>>

torch_sigmoid(x) ==
    CASE x = <<0, 1>>  -> <<1, 2>>
      [] x = <<1, 1>>  -> <<19, 26>>
      [] x = <<-1, 1>> -> <<7, 26>>

relu(x) == IF RLt(x, Zero) THEN Zero ELSE x

\* drelu: (x >= 0) as a number.
drelu(x) == IF RLe(Zero, x) THEN One ELSE Zero

\* dtanh: 1.0 - torch.tanh(x)**2.
dtanh(x) == RSub(One, RMul(torch_tanh(x), torch_tanh(x)))

identity(x) == x

\* didentity: torch.ones_like(x).
didentity(x) == One

\* The functions a model's nl and dnl attributes can be bound to.
Apply(fname, x) ==
    CASE fname = "relu"      -> relu(x)
      [] fname = "drelu"     -> drelu(x)
      [] fname = "tanh"      -> torch_tanh(x)
      [] fname = "dtanh"     -> dtanh(x)
      [] fname = "identity"  -> identity(x)
      [] fname = "didentity" -> didentity(x)
      [] fname = "sigmoid"   -> torch_sigmoid(x)

\* The derivative torch's autograd propagates through each activation:
\* relu passes the gradient where the output is positive, tanh's backward is
\* 1 - out^2 and sigmoid's is out * (1 - out).
Backward(fname, x) ==
    CASE fname = "relu"     -> IF RLt(Zero, x) THEN One ELSE Zero
      [] fname = "tanh"     -> RSub(One, RMul(torch_tanh(x), torch_tanh(x)))
      [] fname = "identity" -> One
      [] fname = "sigmoid"  -> RMul(torch_sigmoid(x), RSub(One, torch_sigmoid(x)))

supported_nonlinearities == {"identity", "relu", "tanh", "sigmoid"}

\* The nl / dnl pair __init__ binds to a supported nonlinearity name.
Registry(use_nonlinearity) ==
    CASE use_nonlinearity = "relu"     -> [nl |-> "relu", dnl |-> "drelu"]
      [] use_nonlinearity = "tanh"     -> [nl |-> "tanh", dnl |-> "dtanh"]
      [] use_nonlinearity = "identity" -> [nl |-> "identity", dnl |-> "didentity"]
      [] use_nonlinearity = "sigmoid"  -> [nl |-> "sigmoid", dnl |-> "sigmoid"]

\* A function applied to every entry of a matrix / of a 3-D tensor.
MApply(fname, A) ==
    IF Evaluated(fname) /\ Evaluated(A)
    THEN [i \in 1..NRows(A) |-> [j \in 1..NCols(A) |-> Apply(fname, A[i][j])]]
    ELSE <<>>

TApply(fname, t) ==
    IF Evaluated(fname) /\ Evaluated(t)
    THEN Tensor(t.shape, [n \in 1..t.shape[1] |-> MApply(fname, t.el[n])])
    ELSE t

MBackward(fname, A) ==
    IF Evaluated(fname) /\ Evaluated(A)
    THEN [i \in 1..NRows(A) |-> [j \in 1..NCols(A) |-> Backward(fname, A[i][j])]]
    ELSE <<>>

\* ---------------------------------------------- batched tensor algebra

\* torch.matmul(A, t): the matrix A times every batch element of t.
TMatmul(A, t) ==
    IF Evaluated(A) /\ Evaluated(t)
    THEN Tensor(<<t.shape[1], NRows(A), t.shape[3]>>,
                [n \in 1..t.shape[1] |-> Mm(A, t.el[n])])
    ELSE t

\* t + b, the matrix b broadcast over the batch.
TAddM(t, b) ==
    IF Evaluated(t) /\ Evaluated(b)
    THEN Tensor(t.shape, [n \in 1..t.shape[1] |-> MAdd(t.el[n], b)])
    ELSE t

\* t * u element-wise, two tensors of one shape.
THad(t, u) ==
    IF Evaluated(t) /\ Evaluated(u)
    THEN Tensor(t.shape, [n \in 1..t.shape[1] |-> MHad(t.el[n], u.el[n])])
    ELSE t

TNeg(t) ==
    IF Evaluated(t)
    THEN Tensor(t.shape, [n \in 1..t.shape[1] |-> MNeg(t.el[n])])
    ELSE t

\* torch.bmm(t, u).
Bmm(t, u) ==
    IF Evaluated(t) /\ Evaluated(u)
    THEN Tensor(<<t.shape[1], t.shape[2], u.shape[3]>>,
                [n \in 1..t.shape[1] |-> Mm(t.el[n], u.el[n])])
    ELSE t

\* t.sum(dim=0) and t.mean(dim=0) of a 3-D tensor, as a matrix.
SumDim0(t) == MSumSeq(t.el, t.shape[2], t.shape[3])

MeanDim0(t) == MScale(Q(1, t.shape[1]), SumDim0(t))

\* The number of entries of a tensor.
RECURSIVE Prod(_)
Prod(s) == IF s = <<>> THEN 1 ELSE Head(s) * Prod(Tail(s))

Numel(t) == Prod(t.shape)

\* ------------------------------------- closed-form parameter derivation

\* torch.mm(Kbar, temp.view(-1,1)).view(temp.size()).
RegularizedView(Kbar, temp) == ViewAs(Mm(Kbar, ViewCol(temp)), NRows(temp), NCols(temp))

\* A derivation of theta that sums over the particles where the code averages.
compute_theta_sum(m, q, p) ==
    RegularizedView(m.Kbar, MNeg(SumDim0(Bmm(p, TApply(m.nl, Transpose12(q))))))

\* A derivation of the bias that sums over the particles where the code averages.
compute_bias_sum(m, p) == Mm(m.Kbar_b, MNeg(SumDim0(p)))

\* ShootingBlock.compute_theta (the same code in ShootingBlock2 and
\* ShootingBlockMN): temp = -mean_k p_k nl(q_k)^T, theta = view(Kbar * vec(temp)).
compute_theta(m, q, p) ==
    RegularizedView(m.Kbar, MNeg(MeanDim0(Bmm(p, TApply(m.nl, Transpose12(q))))))

\* ShootingBlock.compute_bias: temp = -mean_k p_k, bias = Kbar_b * temp.
compute_bias(m, p) == Mm(m.Kbar_b, MNeg(MeanDim0(p)))

\* --------------------------------------------- ShootingBlock.forward

\* input[:k], input[k:2k], input[2k:], each transposed to column vectors.
Unpack3(k, input) ==
    [q |-> Transpose12(Slice0(input, 0, k)),
     p |-> Transpose12(Slice0(input, k, 2 * k)),
     x |-> Transpose12(Slice0(input, 2 * k, input.shape[1]))]

\* A packing that puts the co-state derivative first.
Pack3_exchanged(dot_q, dot_p, dot_x) ==
    Cat0(<<Transpose12(dot_p), Transpose12(dot_q), Transpose12(dot_x)>>)

\* torch.cat((dot_qt, dot_pt, dot_xt)) of the transposed derivative blocks.
Pack3(dot_q, dot_p, dot_x) ==
    Cat0(<<Transpose12(dot_q), Transpose12(dot_p), Transpose12(dot_x)>>)

\* theta nl(q) + bias (ShootingBlock2.advect_q; inline in ShootingBlock.forward).
advect_q(fname, q, theta, bias) == TAddM(TMatmul(theta, TApply(fname, q)), bias)

\* ShootingBlock2.advect_x: the same law applied to the data.
advect_x(fname, x, theta, bias) == TAddM(TMatmul(theta, TApply(fname, x)), bias)

\* The explicit co-state law of ShootingBlock.forward: -dnl(q) * (theta^T p).
closed_dot_p(m, p, q, theta) ==
    LET tTp     == TMatmul(MT(theta), p)
        sigma_p == TApply(m.dnl, q)
    IN  TNeg(THad(sigma_p, tTp))

\* ShootingBlock2.advect_p: minus the autograd gradient with respect to q of
\* sum(p * advect_q(q, theta, bias)), theta and bias detached.
advect_p(m, p, q, theta, bias) ==
    LET tT    == MT(theta)
        xgrad == IF Evaluated(m) /\ Evaluated(p) /\ Evaluated(q) /\ Evaluated(tT)
                 THEN Tensor(q.shape,
                         [n \in 1..q.shape[1] |->
                             MHad(MBackward(m.nl, q.el[n]), Mm(tT, p.el[n]))])
                 ELSE q
    IN  TNeg(xgrad)

\* What a forward call of a single-particle-set model computed: the unpacked
\* blocks u, the parameters, the derivative blocks and the returned tensor.
ForwardResult(u, theta, bias, dot_q, dot_p, dot_x) ==
    [q |-> u.q, p |-> u.p, x |-> u.x, theta |-> theta, bias |-> bias,
     dot_q |-> dot_q, dot_p |-> dot_p, dot_x |-> dot_x,
     out |-> Pack3(dot_q, dot_p, dot_x)]

\* ShootingBlock.forward from the unpacked blocks and the derived parameters.
ShootingBlock_derivatives(m, u, theta, bias) ==
    ForwardResult(u, theta, bias,
                  TAddM(TMatmul(theta, TApply(m.nl, u.q)), bias),
                  closed_dot_p(m, u.p, u.q, theta),
                  TAddM(TMatmul(theta, TApply(m.nl, u.x)), bias))

\* A forward that takes the bias from the momenta and the data together.
ShootingBlock_unpacked_bias_of_data(m, u) ==
    ShootingBlock_derivatives(m, u, compute_theta(m, u.q, u.p),
                              compute_bias(m, Cat0(<<u.p, u.x>>)))

ShootingBlock_unpacked(m, u) ==
    ShootingBlock_derivatives(m, u, compute_theta(m, u.q, u.p), compute_bias(m, u.p))

ShootingBlock_forward(m, input) == ShootingBlock_unpacked(m, Unpack3(m.k, input))

\* ShootingBlock2.forward from the unpacked blocks and the derived parameters.
ShootingBlock2_derivatives(m, u, theta, bias) ==
    ForwardResult(u, theta, bias,
                  advect_q(m.nl, u.q, theta, bias),
                  advect_p(m, u.p, u.q, theta, bias),
                  advect_x(m.nl, u.x, theta, bias))

ShootingBlock2_unpacked(m, u) ==
    ShootingBlock2_derivatives(m, u, compute_theta(m, u.q, u.p), compute_bias(m, u.p))

ShootingBlock2_forward(m, input) == ShootingBlock2_unpacked(m, Unpack3(m.k, input))

\* ------------------------------------------------- the inner solve

\* The symmetric part of a matrix.
Sym(M) == MScale(Q(1, 2), MAdd(M, MT(M)))

\* The gradient of 0.5 * vec(A)^T Minv vec(A) with respect to A, Msym being the
\* symmetric part of Minv.
KinGrad(Msym, A) == ViewAs(Mm(Msym, ViewCol(A)), NRows(A), NCols(A))

\* The gradient of torch.mean(p * (theta f(q) + bias)) with respect to theta
\* and with respect to bias.
PotGradTheta(fname, p, q) ==
    MScale(Q(1, Numel(p)), SumDim0(Bmm(p, TApply(fname, Transpose12(q)))))

PotGradBias(p) == MScale(Q(1, Numel(p)), SumDim0(p))

\* One step theta - learning_rate * theta_grad of the inner loop: theta_grad
\* is the gradient of kinetic_energy - potential_energy, G the gradient of the
\* potential energy.
InnerStep(lr, Msym, G, A) == MSub(A, MScale(lr, MSub(KinGrad(Msym, A), G)))

RECURSIVE InnerSteps(_, _, _, _, _)
InnerSteps(n, lr, Msym, G, A) ==
    IF n = 0 THEN A ELSE InnerSteps(n - 1, lr, Msym, G, InnerStep(lr, Msym, G, A))

\* The n steps of the loop from the guess A, for a parameter with regularizer
\* inverse Minv.
InnerLoop(n, lr, Minv, G, A) == InnerSteps(n, lr, Sym(Minv), G, A)

\* A loop that stops as soon as a step leaves the parameter as it was.
RECURSIVE InnerIterates_until_converged(_, _, _, _, _)
InnerIterates_until_converged(n, lr, Msym, G, trace) ==
    IF n = 0 \/ (Len(trace) >= 2 /\ trace[Len(trace)] = trace[Len(trace) - 1])
    THEN trace
    ELSE InnerIterates_until_converged(n - 1, lr, Msym, G,
             Append(trace, InnerStep(lr, Msym, G, trace[Len(trace)])))

\* for n in range(nr_of_fixed_point_iterations): the iterates the loop goes
\* through, the guess first; every pass appends one update.
RECURSIVE InnerIterates(_, _, _, _, _)
InnerIterates(n, lr, Msym, G, trace) ==
    IF n = 0 THEN trace
    ELSE IF Evaluated(trace)
         THEN InnerIterates(n - 1, lr, Msym, G,
                  Append(trace, InnerStep(lr, Msym, G, trace[Len(trace)])))
         ELSE trace

InnerTrace(n, lr, Minv, G, A) == InnerIterates(n, lr, Sym(Minv), G, <<A>>)

\* Back-propagation through n steps of the loop, which create_graph=True
\* keeps in the graph: the product of the column v with the derivative of the
\* last iterate vec(theta) with respect to vec(G).  A step is
\* theta' = theta - lr (Msym theta - G), so v reaches G directly (lr v) and,
\* through the previous iterate, as v - lr Msym v.
RECURSIVE BackwardSteps(_, _, _, _)
BackwardSteps(n, lr, Msym, v) ==
    IF n = 0 THEN MScale(Zero, v)
    ELSE MAdd(MScale(lr, v),
              BackwardSteps(n - 1, lr, Msym, MSub(v, MScale(lr, Mm(MT(Msym), v)))))

LoopBackward(n, lr, Minv, v) == BackwardSteps(n, lr, Sym(Minv), v)

\* The derivative of the lagrangian with respect to the loop's last iterate
\* theta: the gradient of kinetic_energy - potential_energy.
LastIterateGrad(fname, Minv, p, q, theta) ==
    MSub(KinGrad(Sym(Minv), theta), PotGradTheta(fname, p, q))

\* R back-propagated through the loop to G, in the shape of theta.
ThroughLoop(n, lr, Minv, R) ==
    ViewAs(LoopBackward(n, lr, Minv, ViewCol(R)), NRows(R), NCols(R))

\* The derivative with respect to q of -mean(p * (theta f(q) + bias)) when the
\* transposed matrix in front of f(q) is D.
PotentialGradQ(fname, p, q, D) ==
    IF Evaluated(fname) /\ Evaluated(p) /\ Evaluated(q) /\ Evaluated(D)
    THEN Tensor(q.shape,
             [k \in 1..q.shape[1] |->
                 MScale(Q(-1, Numel(p)),
                        MHad(MBackward(fname, q.el[k]), Mm(D, p.el[k])))])
    ELSE q

\* autograd.grad(current_lagrangian, q) after the loop: theta is the loop's
\* last iterate and itself a function of q through G, so the gradient is that
\* of the potential with theta - W in the place of theta, W being the
\* derivative of the lagrangian with respect to theta carried through the loop.
LagrangianGradQ(fname, n, lr, Minv, p, q, theta) ==
    PotentialGradQ(fname, p, q,
        MT(MSub(theta, ThroughLoop(n, lr, Minv, LastIterateGrad(fname, Minv, p, q, theta)))))

\* ----------------------------------------- ShootingBlockMN.forward

\* nr_of_fixed_point_iterations of ShootingBlockMN.compute_gradients.
MN_nr_of_fixed_point_iterations == 5

\* A step of half the gradient, the rate the coupled model uses.
MN_learning_rate_half == <<1, 2>>

\* theta = theta - theta_grad: a step of size one.
MN_learning_rate == One

\* ShootingBlockMN.compute_gradients after the loop: the tuple
\* (dot_x, dot_p, dot_q) it returns and the loop's last iterates.
MN_gradients(m, x, p, q, theta, bias) ==
    [ret |-> << advect_x(m.nl, x, theta, bias),
                LagrangianGradQ(m.nl, MN_nr_of_fixed_point_iterations, MN_learning_rate,
                                m.inv_Kbar, p, q, theta),
                advect_q(m.nl, q, theta, bias) >>,
     theta |-> theta, bias |-> bias]

\* ShootingBlockMN.compute_gradients; guess is the torch.randn draw.
MN_compute_gradients(m, x, p, q, guess) ==
    MN_gradients(m, x, p, q,
        InnerLoop(MN_nr_of_fixed_point_iterations, MN_learning_rate, m.inv_Kbar,
                  PotGradTheta(m.nl, p, q), guess.theta1),
        InnerLoop(MN_nr_of_fixed_point_iterations, MN_learning_rate, m.inv_Kbar_b,
                  PotGradBias(p), guess.bias1))

\* dot_x,dot_p,dot_q = self.compute_gradients(...), then transposes and cat.
ShootingBlockMN_assembled(u, g) ==
    ForwardResult(u, g.theta, g.bias, g.ret[3], g.ret[2], g.ret[1])

ShootingBlockMN_unpacked(m, u, guess) ==
    ShootingBlockMN_assembled(u, MN_compute_gradients(m, u.x, u.p, u.q, guess))

ShootingBlockMN_forward(m, input, guess) ==
    ShootingBlockMN_unpacked(m, Unpack3(m.k, input), guess)

\* ------------------------------------ ShootingBlockMNModel1.forward

\* nr_of_fixed_point_iterations of ShootingBlockMNModel1.compute_gradients.
M1_nr_of_fixed_point_iterations == 20

\* The parameters (theta1, bias1, theta2, bias2) of ShootingBlockMNModel1 are
\* float values reached by gradient steps on a lagrangian that is not
\* quadratic in them (theta2 and bias2 sit inside the nonlinearity).  They are
\* kept as what determines them: the draw the loop started from, the number
\* of updates applied, and the particles (p, q) the lagrangian was taken at.
M1_update(iterate) == [iterate EXCEPT !.updates = @ + 1]

\* for n in range(nr_of_fixed_point_iterations): one update per pass.
RECURSIVE M1_inner_steps(_, _)
M1_inner_steps(n, iterate) ==
    IF n = 0 THEN iterate ELSE M1_inner_steps(n - 1, M1_update(iterate))

M1_inner_solve(p, q, guess) ==
    M1_inner_steps(M1_nr_of_fixed_point_iterations,
                   [guess |-> guess, updates |-> 0, p |-> p, q |-> q])

\* A tensor of the shape of t whose batch element i is f applied to what
\* of[i] holds, under parameters th: advect_q and advect_x act on each
\* column by itself, the gradient of the lagrangian with respect to q_i on
\* the pair (p_i, q_i).
M1_applied(f, t, of, th) ==
    IF Evaluated(t) /\ Evaluated(of) /\ Evaluated(th)
    THEN Tensor(t.shape, [i \in 1..t.shape[1] |-> [f |-> f, of |-> of[i], at |-> th]])
    ELSE t

\* Tensor.transpose(1, 2) of such a tensor.
M1_transpose(t) ==
    IF Evaluated(t)
    THEN Tensor(<<t.shape[1], t.shape[3], t.shape[2]>>,
                [i \in 1..t.shape[1] |-> [transposed |-> t.el[i]]])
    ELSE t

\* ShootingBlockMNModel1.compute_gradients: the tuple (dot_x, dot_p, dot_q).
M1_gradients(x, p, q, th) ==
    << M1_applied("advect_x", x, x.el, th),
       M1_applied("grad_q", q, [i \in 1..q.shape[1] |-> <<p.el[i], q.el[i]>>], th),
       M1_applied("advect_q", q, q.el, th) >>

M1_compute_gradients(x, p, q, guess) == M1_gradients(x, p, q, M1_inner_solve(p, q, guess))

\* dot_x,dot_p,dot_q = self.compute_gradients(x=x,p=p,q=q), transposes, cat.
M1_assembled(u, th, r) ==
    [q |-> u.q, p |-> u.p, x |-> u.x, theta |-> th, bias |-> th,
     dot_q |-> r[3], dot_p |-> r[2], dot_x |-> r[1],
     out |-> Cat0(<<M1_transpose(r[3]), M1_transpose(r[2]), M1_transpose(r[1])>>)]

M1_unpacked(u, guess) ==
    M1_assembled(u, M1_inner_solve(u.p, u.q, guess),
                 M1_compute_gradients(u.x, u.p, u.q, guess))

ShootingBlockMNModel1_forward(m, input, guess) == M1_unpacked(Unpack3(m.k, input), guess)

\* ------------------------------------ ShootingBlockMNModel2.forward

\* nr_of_fixed_point_iterations of ShootingBlockMNModel2.compute_gradients.
M2_nr_of_fixed_point_iterations == 5

\* learning_rate = 0.5.
M2_learning_rate == <<1, 2>>

\* advect_q1 applies the model's nonlinearity, advect_q2 the identity.
advect_q1(m, q, theta, bias) == TAddM(TMatmul(theta, TApply(m.nl, q)), bias)

advect_q2(m, q, theta, bias) == TAddM(TMatmul(theta, q), bias)

advect_x1(m, x, theta, bias) == advect_q1(m, x, theta, bias)

advect_x2(m, x, theta, bias) == advect_q2(m, x, theta, bias)

\* The inner loop of ShootingBlockMNModel2.compute_gradients: the parameters
\* after nr_of_fixed_point_iterations steps from the drawn guess.  The
\* potential energy of compute_lagrangian is
\* mean(p1 * advect_q1(q2, theta1, bias1)) + mean(p2 * advect_q2(q1, theta2, bias2)).
M2_inner_solve(m, p1, q1, p2, q2, guess) ==
    [theta1 |-> InnerLoop(M2_nr_of_fixed_point_iterations, M2_learning_rate, m.inv_Kbar,
                          PotGradTheta(m.nl, p1, q2), guess.theta1),
     bias1  |-> InnerLoop(M2_nr_of_fixed_point_iterations, M2_learning_rate, m.inv_Kbar_b,
                          PotGradBias(p1), guess.bias1),
     theta2 |-> InnerLoop(M2_nr_of_fixed_point_iterations, M2_learning_rate, m.inv_Kbar,
                          PotGradTheta("identity", p2, q1), guess.theta2),
     bias2  |-> InnerLoop(M2_nr_of_fixed_point_iterations, M2_learning_rate, m.inv_Kbar_b,
                          PotGradBias(p2), guess.bias2)]

\* ShootingBlockMNModel2.compute_gradients after the loop, th being the
\* loop's last iterates: the derivative blocks by the names the function
\* gives them.
M2_after_loop(m, x1, x2, p1, q1, p2, q2, th) ==
    [theta1 |-> th.theta1, bias1 |-> th.bias1,
     theta2 |-> th.theta2, bias2 |-> th.bias2,
     \* dot_p1, dot_p2 = autograd.grad(current_lagrangian, (q1, q2))
     dot_p1 |-> LagrangianGradQ("identity", M2_nr_of_fixed_point_iterations, M2_learning_rate,
                                m.inv_Kbar, p2, q1, th.theta2),
     dot_p2 |-> LagrangianGradQ(m.nl, M2_nr_of_fixed_point_iterations, M2_learning_rate,
                                m.inv_Kbar, p1, q2, th.theta1),
     dot_x1 |-> advect_x1(m, x2, th.theta1, th.bias1),
     dot_x2 |-> advect_x2(m, x1, th.theta2, th.bias2),
     dot_q1 |-> advect_q1(m, q2, th.theta1, th.bias1),
     dot_q2 |-> advect_q2(m, q1, th.theta2, th.bias2)]

M2_gradients(m, x1, x2, p1, q1, p2, q2, guess) ==
    M2_after_loop(m, x1, x2, p1, q1, p2, q2, M2_inner_solve(m, p1, q1, p2, q2, guess))

\* The tuple compute_gradients returns, in the order of its return statement.
M2_compute_gradients(g) ==
    <<g.dot_x1, g.dot_x2, g.dot_p1, g.dot_q1, g.dot_p2, g.dot_q2>>

\* The six blocks of disassemble(input), each transposed to column vectors.
M2_columns(b) ==
    [q1 |-> Transpose12(b[1]), q2 |-> Transpose12(b[2]),
     p1 |-> Transpose12(b[3]), p2 |-> Transpose12(b[4]),
     x1 |-> Transpose12(b[5]), x2 |-> Transpose12(b[6])]

\* The end of ShootingBlockMNModel2.forward: r is the tuple compute_gradients
\* returned, unpacked by position into the names of forward's assignment,
\* transposed back and assembled.
M2_assembled(input, guess, c, g, r) ==
    LET \* dot_x1,dot_x2,dot_p1,dot_p2,dot_q1,dot_q2 = self.compute_gradients(...)
        dot_x1 == r[1]
        dot_x2 == r[2]
        dot_p1 == r[3]
        dot_p2 == r[4]
        dot_q1 == r[5]
        dot_q2 == r[6]
    IN  [input |-> input, guess |-> guess,
         q1 |-> c.q1, q2 |-> c.q2, p1 |-> c.p1, p2 |-> c.p2, x1 |-> c.x1, x2 |-> c.x2,
         cg |-> g,
         out |-> assemble(Transpose12(dot_q1), Transpose12(dot_q2),
                          Transpose12(dot_p1), Transpose12(dot_p2),
                          Transpose12(dot_x1), Transpose12(dot_x2))]

M2_returned(input, guess, c, g) == M2_assembled(input, guess, c, g, M2_compute_gradients(g))

M2_unpacked(m, input, guess, c) ==
    M2_returned(input, guess, c,
                M2_gradients(m, c.x1, c.x2, c.p1, c.q1, c.p2, c.q2, guess))

\* ShootingBlockMNModel2.forward: disassemble, transpose, compute_gradients,
\* transpose back, assemble.
ShootingBlockMNModel2_forward(m, input, guess) ==
    M2_unpacked(m, input, guess, M2_columns(disassemble(m.k, input, 0)))

\* ------------------------------------------------------ model objects

\* Integer matrices as rational ones.
IntMat(M) ==
    IF Evaluated(M)
    THEN [i \in 1..Len(M) |-> [j \in 1..Len(M[i]) |-> <<M[i][j], 1>>]]
    ELSE <<>>

\* A symmetric positive-definite regularizer for theta and for the bias, with
\* their inverses.
KbarSPD == IntMat(<< <<2, 1, 0, 0>>, <<1, 1, 0, 0>>, <<0, 0, 1, 0>>, <<0, 0, 0, 1>> >>)

KbarSPDInv == IntMat(<< <<1, -1, 0, 0>>, <<-1, 2, 0, 0>>, <<0, 0, 1, 0>>, <<0, 0, 0, 1>> >>)

KbarbSPD == IntMat(<< <<2, 1>>, <<1, 1>> >>)

KbarbSPDInv == IntMat(<< <<1, -1>>, <<-1, 2>> >>)

\* Tensor.inverse() on the regularizers above.
Inverse(M) ==
    CHOOSE X \in {Eye(NRows(M)), KbarSPDInv, KbarbSPDInv} :
        NRows(X) = NRows(M) /\ Mm(M, X) = Eye(NRows(M))

\* __init__: the object a constructor call leaves (Kbar = None is the identity).
NewModel(variant, k, Kbar, Kbar_b, nonlinearity) ==
    [variant |-> variant, k |-> k, d |-> FeatureDim,
     Kbar |-> Kbar, Kbar_b |-> Kbar_b,
     inv_Kbar |-> Inverse(Kbar), inv_Kbar_b |-> Inverse(Kbar_b),
     nl |-> Registry(nonlinearity).nl, dnl |-> Registry(nonlinearity).dnl,
     number_of_calls |-> 0]

\* The classes of the module that can be asked for a model.
Variants ==
    {"ShootingBlock", "ShootingBlock2", "ShootingModel_1", "ShootingBlockMN",
     "ShootingBlockMNModel1", "ShootingBlockMNModel2"}

\* str.lower() on the names handed to the constructors below.
Lower(name) ==
    CASE name = "Tanh" -> "tanh"
      [] name = "RELU" -> "relu"
      [] name = "Sigmoid" -> "sigmoid"
      [] OTHER -> name

\* The names a class's supported_nonlinearities lists.
supported_by(variant) ==
    IF variant = "ShootingModel_1"
    THEN supported_nonlinearities \cup {"softmax"}
    ELSE supported_nonlinearities

\* use_nonlinearity: ShootingModel_1 first overwrites its argument with
\* 'softmax'; None stands for the identity, any other name is lower-cased.
use_nonlinearity(variant, nonlinearity) ==
    LET given == IF variant = "ShootingModel_1" THEN "softmax" ELSE nonlinearity
    IN  IF given = "None" THEN "identity" ELSE Lower(given)

\* The functions the module defines or imports that a constructor can bind.
ModuleFunctions ==
    {"relu", "drelu", "tanh", "dtanh", "identity", "didentity", "sigmoid"}

\* The names the if/elif chain of a constructor reads for a supported name.
BoundNames(use) ==
    IF use = "softmax" THEN {"softmax", "dsoftmax"}
    ELSE {Registry(use).nl, Registry(use).dnl}

\* A call of a class's __init__ (request: variant, k, Kbar, Kbar_b,
\* nonlinearity): the object it leaves, or the exception that ended it.
Constructed(request) ==
    LET use == use_nonlinearity(request.variant, request.nonlinearity)
    IN  IF use \notin supported_by(request.variant)
        THEN [pc |-> "failed", request |-> request,
              err |-> "ValueError: Unsupported nonlinearity"]
        ELSE IF ~(BoundNames(use) \subseteq ModuleFunctions)
        THEN [pc |-> "failed", request |-> request, err |-> "NameError"]
        ELSE [pc |-> "constructed", request |-> request, err |-> "none",
              object |-> NewModel(request.variant, request.k, request.Kbar,
                                  request.Kbar_b, use)]

\* -------------------------------------------------------------- state

VARIABLES
    model,   \* the shooting block object: its fields after __init__
    z,       \* the state tensor the ODE solver hands to forward next
    calls,   \* the forward calls made so far, oldest first: inputs and results
    codec,   \* a use of disassemble / assemble: its inputs, results and error
    run      \* the other calls on the model and the training script's position

vars == <<model, z, calls, codec, run>>

\* ------------------------------------------------------- input domains

\* A row of a state tensor: a 1 x FeatureDim matrix.
Row(a, b) == << <<Q(a, 1), Q(b, 1)>> >>

RowVals == {Row(1, 0), Row(-1, 1)}

\* The state tensors of leading size n (shape n x 1 x FeatureDim).
States3(n) == {Tensor(<<n, 1, FeatureDim>>, s) : s \in [1..n -> RowVals]}

\* A trajectory of T time points over states of leading size n
\* (shape T x n x 1 x FeatureDim), every row distinct.
Trajectory(T, n) ==
    Tensor(<<T, n, 1, FeatureDim>>, [t \in 1..T |-> [i \in 1..n |-> Row(t, i)]])

\* The blocks of n rows handed to assemble in place i: one whose rows differ
\* from each other and from the rows of every other place, and one whose rows
\* are all the same, in every place.
Blocks(i, n) ==
    { Tensor(<<n, 1, FeatureDim>>, [r \in 1..n |-> Row(i, r)]),
      Tensor(<<n, 1, FeatureDim>>, [r \in 1..n |-> Row(1, 0)]) }

\* The values torch.randn draws for the inner solve's initial guess.
Guesses ==
    { [theta1 |-> IntMat(<< <<1, 0>>, <<0, -1>> >>), bias1 |-> IntMat(<< <<1>>, <<0>> >>),
       theta2 |-> IntMat(<< <<0, 1>>, <<1, 0>> >>),  bias2 |-> IntMat(<< <<0>>, <<-1>> >>)],
      [theta1 |-> IntMat(<< <<-1, 2>>, <<1, 1>> >>), bias1 |-> IntMat(<< <<0>>, <<2>> >>),
       theta2 |-> IntMat(<< <<2, 0>>, <<-1, 1>> >>), bias2 |-> IntMat(<< <<-2>>, <<1>> >>)] }

\* The codec is not in use.
NoCodec == [pc |-> "idle"]

NoTensor == Tensor(<<0, 1, FeatureDim>>, <<>>)

\* No other call is made and no script runs.
NoRun == [pc |-> "idle"]

\* ------------------------------------------------------------ forward

\* z with row i replaced: the solver moves to a neighbouring state.
Move ==
    /\ calls # <<>>
    /\ Len(calls) < MaxCalls
    /\ z = calls[Len(calls)].input
    /\ \E i \in 1..z.shape[1] : \E r \in RowVals :
          /\ r # z.el[i]
          /\ z' = [z EXCEPT !.el[i] = r]
    /\ UNCHANGED <<model, calls, codec, run>>

\* ShootingBlock.forward(t, z): counts the call, then evaluates.
ForwardShootingBlock ==
    /\ model.variant = "ShootingBlock"
    /\ Len(calls) < MaxCalls
    /\ model' = [model EXCEPT !.number_of_calls = @ + 1]
    /\ calls' = Append(calls, [input |-> z, guess |-> "none"] @@ ShootingBlock_forward(model, z))
    /\ UNCHANGED <<z, codec, run>>

ForwardShootingBlock2 ==
    /\ model.variant = "ShootingBlock2"
    /\ Len(calls) < MaxCalls
    /\ calls' = Append(calls, [input |-> z, guess |-> "none"] @@ ShootingBlock2_forward(model, z))
    /\ UNCHANGED <<model, z, codec, run>>

\* ShootingBlockMN.forward(t, z): the inner solve starts from a fresh draw.
ForwardShootingBlockMN ==
    /\ model.variant = "ShootingBlockMN"
    /\ Len(calls) < MaxCalls
    /\ \E guess \in Guesses :
          calls' = Append(calls, [input |-> z, guess |-> guess]
                                    @@ ShootingBlockMN_forward(model, z, guess))
    /\ UNCHANGED <<model, z, codec, run>>

\* ShootingBlockMNModel1.forward(t, z).
ForwardShootingBlockMNModel1 ==
    /\ model.variant = "ShootingBlockMNModel1"
    /\ Len(calls) < MaxCalls
    /\ \E guess \in Guesses :
          calls' = Append(calls, [input |-> z, guess |-> guess]
                                    @@ ShootingBlockMNModel1_forward(model, z, guess))
    /\ UNCHANGED <<model, z, codec, run>>

ForwardShootingBlockMNModel2 ==
    /\ model.variant = "ShootingBlockMNModel2"
    /\ Len(calls) < MaxCalls
    /\ \E guess \in Guesses :
          calls' = Append(calls, ShootingBlockMNModel2_forward(model, z, guess))
    /\ UNCHANGED <<model, z, codec, run>>

\* The coupled model the training script instantiates (default regularizers),
\* handed states of leading size 4K + 2B.
Init ==
    /\ \E k \in 1..MaxKCoupled : \E nonlinearity \in supported_nonlinearities :
          /\ model = NewModel("ShootingBlockMNModel2", k, Eye(FeatureDim * FeatureDim),
                              Eye(FeatureDim), nonlinearity)
          /\ \E B \in 0..MaxB : z \in States3(4 * k + 2 * B)
    /\ calls = <<>>
    /\ codec = NoCodec
    /\ run = NoRun

Next == ForwardShootingBlockMNModel2 \/ Move

Spec == Init /\ [][Next]_vars

\* The single-particle-set models, handed states of leading size 2K + B.
InitSingle ==
    /\ \E variant \in {"ShootingBlock", "ShootingBlock2", "ShootingBlockMN",
                       "ShootingBlockMNModel1"} :
       \E k \in 1..MaxK : \E nonlinearity \in supported_nonlinearities :
       \E K \in {<<Eye(FeatureDim * FeatureDim), Eye(FeatureDim)>>, <<KbarSPD, KbarbSPD>>} :
          /\ model = NewModel(variant, k, K[1], K[2], nonlinearity)
          /\ \E B \in 0..MaxB : z \in States3(2 * k + B)
    /\ calls = <<>>
    /\ codec = NoCodec
    /\ run = NoRun

NextSingle ==
    \/ ForwardShootingBlock
    \/ ForwardShootingBlock2
    \/ ForwardShootingBlockMN
    \/ ForwardShootingBlockMNModel1
    \/ Move

SpecSingle == InitSingle /\ [][NextSingle]_vars

\* -------------------------------------------------- uses of the codec

\* A use of the codec starts from a tensor (form "state": leading size n;
\* form "trajectory": T time points of states of size n) or from six blocks
\* (form "blocks").  tensor is what the last assemble returned and blocks what
\* the last disassemble returned; last is the operation called last and err
\* the exception that ended the use.
CodecFrom(pc, form, dim, orig_tensor, orig_blocks) ==
    [pc |-> pc, form |-> form, dim |-> dim,
     orig_tensor |-> orig_tensor, orig_blocks |-> orig_blocks,
     tensor |-> NoTensor, blocks |-> <<>>, last |-> "none", err |-> "none", ops |-> 0]

\* q1,q2,p1,p2,x1,x2 = self.disassemble(input, dim): an unsupported axis raises
\* ValueError and nothing is returned.
Disassemble ==
    /\ codec.pc \in {"state", "assembled"}
    /\ codec.ops < MaxOps
    /\ LET input == IF codec.pc = "state" THEN codec.orig_tensor ELSE codec.tensor
       IN  codec' = IF disassemble_ok(codec.dim)
                    THEN [codec EXCEPT !.pc = "disassembled",
                                       !.blocks = disassemble(model.k, input, codec.dim),
                                       !.last = "disassemble", !.ops = @ + 1]
                    ELSE [codec EXCEPT !.pc = "failed", !.err = "ValueError",
                                       !.blocks = <<>>,
                                       !.last = "disassemble", !.ops = @ + 1]
    /\ UNCHANGED <<model, z, calls, run>>

\* self.assemble(q1, q2, p1, p2, x1, x2): torch.cat raises RuntimeError on
\* blocks whose trailing sizes differ.
Assemble ==
    /\ codec.pc \in {"blocks", "disassembled"}
    /\ codec.ops < MaxOps
    /\ LET b == IF codec.pc = "blocks" THEN codec.orig_blocks ELSE codec.blocks
       IN  codec' = IF assemble_ok(b[1], b[2], b[3], b[4], b[5], b[6])
                    THEN [codec EXCEPT !.pc = "assembled",
                                       !.tensor = assemble(b[1], b[2], b[3], b[4], b[5], b[6]),
                                       !.last = "assemble", !.ops = @ + 1]
                    ELSE [codec EXCEPT !.pc = "failed", !.err = "RuntimeError",
                                       !.tensor = NoTensor,
                                       !.last = "assemble", !.ops = @ + 1]
    /\ UNCHANGED <<model, z, calls, run>>

InitCodec ==
    /\ \E k \in 1..MaxK :
          model = NewModel("ShootingBlockMNModel2", k, Eye(FeatureDim * FeatureDim),
                           Eye(FeatureDim), "tanh")
    /\ z = NoTensor
    /\ calls = <<>>
    /\ run = NoRun
    /\ \E dim \in (-1)..MaxDim :
          \/ \E n \in 0..MaxRows : \E s \in States3(n) :
                codec = CodecFrom("state", "state", dim, s, <<>>)
          \/ \E T \in 1..MaxT : \E n \in 0..MaxRows :
                codec = CodecFrom("state", "trajectory", dim, Trajectory(T, n), <<>>)
          \/ \E b1 \in 0..MaxB : \E b2 \in 0..MaxB :
             \E q1 \in Blocks(1, model.k) : \E q2 \in Blocks(2, model.k) :
             \E p1 \in Blocks(3, model.k) : \E p2 \in Blocks(4, model.k) :
             \E x1 \in Blocks(5, b1) : \E x2 \in Blocks(6, b2) :
                codec = CodecFrom("blocks", "blocks", dim, NoTensor, <<q1, q2, p1, p2, x1, x2>>)

NextCodec == Disassemble \/ Assemble

SpecCodec == InitCodec /\ [][NextCodec]_vars

\* The regularizers handed to a constructor (None is the identity).
Regularizers ==
    {<<Eye(FeatureDim * FeatureDim), Eye(FeatureDim)>>, <<KbarSPD, KbarbSPD>>}

\* ---------------------------------------------- calls on a model object

\* The classes whose objects exist (ShootingBlockMNModel2 is the coupled one).
SingleVariants ==
    {"ShootingBlock", "ShootingBlock2", "ShootingBlockMN", "ShootingBlockMNModel1"}

\* The attributes of a model that are nn.Parameter, which parameters() hands
\* to the optimizer (q_params and p_params of the coupled model are second
\* names of q1_params and p1_params).
parameters(m) ==
    IF m.variant = "ShootingBlockMNModel2"
    THEN {"q1_params", "p1_params", "q2_params", "p2_params"}
    ELSE {"q_params", "p_params"}

\* self.q_params, self.p_params.
q_params(m) == IF m.variant = "ShootingBlockMNModel2" THEN m.q1_params ELSE m.q_params

p_params(m) == IF m.variant = "ShootingBlockMNModel2" THEN m.p1_params ELSE m.p_params

\* The classes whose compute_theta / compute_bias derive the parameters from
\* the particles; the two others return zeros.
DerivesInClosedForm(m) == m.variant \in {"ShootingBlock", "ShootingBlock2", "ShootingBlockMN"}

\* model.compute_theta(q=..., p=...) and model.compute_bias(p=...).
compute_theta_of(m, q, p) ==
    IF DerivesInClosedForm(m) THEN compute_theta(m, q, p) ELSE Zeros(2, 2)

compute_bias_of(m, p) ==
    IF DerivesInClosedForm(m) THEN compute_bias(m, p) ELSE Zeros(2, 1)

\* theta.view(1,-1) inv_Kbar theta.view(-1,1) + bias.t() inv_Kbar_b bias.
penalty_of(m, theta, bias) ==
    MAdd(Mm(MT(ViewCol(theta)), Mm(m.inv_Kbar, ViewCol(theta))),
         Mm(MT(bias), Mm(m.inv_Kbar_b, bias)))

\* A penalty that takes the regularizers where the code takes their inverses.
get_norm_penalty_regularizers(m) ==
    IF DerivesInClosedForm(m)
    THEN LET th == compute_theta(m, Transpose12(q_params(m)), Transpose12(p_params(m)))
             b  == compute_bias(m, Transpose12(p_params(m)))
         IN  MAdd(Mm(MT(ViewCol(th)), Mm(m.Kbar, ViewCol(th))), Mm(MT(b), Mm(m.Kbar_b, b)))
    ELSE Zero

\* get_norm_penalty: a 1 x 1 tensor in the classes that derive theta and bias
\* in closed form, the number 0 in ShootingBlockMNModel1 and
\* ShootingBlockMNModel2.
get_norm_penalty(m) ==
    IF DerivesInClosedForm(m)
    THEN penalty_of(m, compute_theta(m, Transpose12(q_params(m)), Transpose12(p_params(m))),
                    compute_bias(m, Transpose12(p_params(m))))
    ELSE Zero

\* The values an optimizer step leaves in the parameters: every parameter is
\* updated, to one of two tensors here.
StepTargets(k) ==
    { Tensor(<<k, 1, FeatureDim>>, [i \in 1..k |-> Row(1, 0)]),
      Tensor(<<k, 1, FeatureDim>>, [i \in 1..k |-> Row(-1, 1)]) }

\* A step of an optimizer that was handed the regularizers as well and
\* shrinks them.
Stepped_with_regularizers(m, target) ==
    [f \in DOMAIN m |->
        IF f \in parameters(m) THEN target
        ELSE IF f \in {"Kbar", "Kbar_b"} THEN MScale(Q(1, 2), m[f])
        ELSE m[f]]

\* optimizer.step(): the attributes named by parameters() take new values,
\* every other attribute is left as it is.
Stepped(m, target) ==
    [f \in DOMAIN m |-> IF f \in parameters(m) THEN target ELSE m[f]]

\* An initial condition that leaves out the second data block.
get_initial_condition_one_block(m, x) ==
    Cat0(<<m.q1_params, m.q2_params, m.p1_params, m.p2_params, x>>)

\* The state the script integrates from: torch.cat((q, p, x)) for a model of
\* one particle set, get_initial_condition(x) for the coupled model.
get_initial_condition(m, x) ==
    assemble(m.q1_params, m.q2_params, m.p1_params, m.p2_params, x,
             Tensor(x.shape, [i \in 1..x.shape[1] |-> Row(0, 0)]))

InitialState(m, x) ==
    IF m.variant = "ShootingBlockMNModel2"
    THEN get_initial_condition(m, x)
    ELSE Cat0(<<m.q_params, m.p_params, x>>)

\* A batch of n data points, as get_batch hands them out (n x 1 x FeatureDim).
DataBatch(n) == Tensor(<<n, 1, FeatureDim>>, [i \in 1..n |-> Row(1, 0)])

\* The results of the calls made on the object besides forward.
ObjectRun(ops, last, result) == [pc |-> "object", ops |-> ops, last |-> last, result |-> result]

\* The methods are called in any order, MaxOps calls in all.
MayCall == run.pc = "object" /\ Len(calls) + run.ops < MaxOps

GetNormPenalty ==
    /\ MayCall
    /\ run' = ObjectRun(run.ops + 1, "get_norm_penalty", get_norm_penalty(model))
    /\ UNCHANGED <<model, z, calls, codec>>

ComputeTheta ==
    /\ MayCall
    /\ run' = ObjectRun(run.ops + 1, "compute_theta",
                        compute_theta_of(model, Transpose12(q_params(model)),
                                         Transpose12(p_params(model))))
    /\ UNCHANGED <<model, z, calls, codec>>

ComputeBias ==
    /\ MayCall
    /\ run' = ObjectRun(run.ops + 1, "compute_bias",
                        compute_bias_of(model, Transpose12(p_params(model))))
    /\ UNCHANGED <<model, z, calls, codec>>

OptimizerStep ==
    /\ MayCall
    /\ \E target \in StepTargets(model.k) : model' = Stepped(model, target)
    /\ run' = ObjectRun(run.ops + 1, "step", "none")
    /\ UNCHANGED <<z, calls, codec>>

ObjectForward ==
    /\ MayCall
    /\ \/ ForwardShootingBlock
       \/ ForwardShootingBlock2
       \/ ForwardShootingBlockMN
       \/ ForwardShootingBlockMNModel1
       \/ ForwardShootingBlockMNModel2

\* A constructed model with its particle parameters, and a state to
\* evaluate it at.
InitObject ==
    /\ \E nonlinearity \in supported_nonlinearities : \E K \in Regularizers :
          \/ \E variant \in SingleVariants : \E k \in 1..MaxK :
             \E q \in States3(k) : \E p \in States3(k) :
                model = NewModel(variant, k, K[1], K[2], nonlinearity)
                            @@ [q_params |-> q, p_params |-> p]
          \/ \E k \in 1..MaxKCoupled :
             \E q1 \in States3(k) : \E p1 \in States3(k) :
             \E q2 \in States3(k) : \E p2 \in States3(k) :
                model = NewModel("ShootingBlockMNModel2", k, K[1], K[2], nonlinearity)
                            @@ [q1_params |-> q1, p1_params |-> p1,
                                q2_params |-> q2, p2_params |-> p2]
    /\ z = InitialState(model, DataBatch(MaxB))
    /\ calls = <<>>
    /\ codec = NoCodec
    /\ run = ObjectRun(0, "none", "none")

NextObject ==
    \/ GetNormPenalty
    \/ ComputeTheta
    \/ ComputeBias
    \/ OptimizerStep
    \/ ObjectForward

SpecObject == InitObject /\ [][NextObject]_vars

\* ------------------------------------- integration of the coupled model

\* z_0 = shooting.get_initial_condition(x=batch_y0) for a batch of B points.
GetInitialCondition ==
    /\ run.pc = "start"
    /\ \E B \in 0..MaxB : \E x \in States3(B) :
          /\ z' = get_initial_condition(model, x)
          /\ run' = [pc |-> "integrating", x |-> x]
    /\ UNCHANGED <<model, calls, codec>>

\* odeint evaluates the model at the state it has reached, then moves on.
IntegrateForward == run.pc = "integrating" /\ ForwardShootingBlockMNModel2

IntegrateMove == run.pc = "integrating" /\ Move

\* The coupled model as the script builds it: both particle sets start near
\* the same batch (q1, q2) and near zero (p1, p2); default regularizers.
InitIntegrate ==
    /\ \E k \in 1..MaxKCoupled : \E nonlinearity \in supported_nonlinearities :
       \E q \in States3(k) : \E p \in States3(k) :
          model = NewModel("ShootingBlockMNModel2", k, Eye(FeatureDim * FeatureDim),
                           Eye(FeatureDim), nonlinearity)
                      @@ [q1_params |-> q, p1_params |-> p, q2_params |-> q, p2_params |-> p]
    /\ z = NoTensor
    /\ calls = <<>>
    /\ codec = NoCodec
    /\ run = [pc |-> "start"]

NextIntegrate == GetInitialCondition \/ IntegrateForward \/ IntegrateMove

SpecIntegrate == InitIntegrate /\ [][NextIntegrate]_vars

\* ------------------------------------------- calls of compute_gradients

\* A compute_gradients that resumes from the parameters handed to it.
inner_start_from_old(guess, old) == old

\* The parameters the loop of compute_gradients starts from: the torch.randn
\* draw; old_theta and old_bias are not read.
inner_start(guess, old) == guess

\* The loops of ShootingBlockMN.compute_gradients, iterate by iterate.
MN_traces(m, p, q, start) ==
    [theta1 |-> InnerTrace(MN_nr_of_fixed_point_iterations, MN_learning_rate, m.inv_Kbar,
                           PotGradTheta(m.nl, p, q), start.theta1),
     bias1  |-> InnerTrace(MN_nr_of_fixed_point_iterations, MN_learning_rate, m.inv_Kbar_b,
                           PotGradBias(p), start.bias1)]

\* The loops of ShootingBlockMNModel2.compute_gradients, iterate by iterate.
M2_traces(m, p1, q1, p2, q2, start) ==
    [theta1 |-> InnerTrace(M2_nr_of_fixed_point_iterations, M2_learning_rate, m.inv_Kbar,
                           PotGradTheta(m.nl, p1, q2), start.theta1),
     bias1  |-> InnerTrace(M2_nr_of_fixed_point_iterations, M2_learning_rate, m.inv_Kbar_b,
                           PotGradBias(p1), start.bias1),
     theta2 |-> InnerTrace(M2_nr_of_fixed_point_iterations, M2_learning_rate, m.inv_Kbar,
                           PotGradTheta("identity", p2, q1), start.theta2),
     bias2  |-> InnerTrace(M2_nr_of_fixed_point_iterations, M2_learning_rate, m.inv_Kbar_b,
                           PotGradBias(p2), start.bias2)]

\* What a call of compute_gradients went through and returned: the iterates
\* of its loop, the parameters it ended with and the tuple it returned.
MN_call(m, u, start) ==
    [args |-> u, traces |-> MN_traces(m, u.p, u.q, start),
     cg |-> MN_compute_gradients(m, u.x, u.p, u.q, start)]

M1_call(m, u, start) ==
    [args |-> u, traces |-> <<>>,
     cg |-> [last |-> M1_inner_solve(u.p, u.q, start),
             ret |-> M1_compute_gradients(u.x, u.p, u.q, start)]]

M2_call(m, c, start) ==
    [args |-> c, traces |-> M2_traces(m, c.p1, c.q1, c.p2, c.q2, start),
     cg |-> M2_gradients(m, c.x1, c.x2, c.p1, c.q1, c.p2, c.q2, start)]

\* model.compute_gradients(..., old_theta=old, old_bias=old) on the blocks of
\* the state input, guess being the draw of this call.
compute_gradients_call(m, input, guess, old) ==
    [guess |-> guess, old |-> old, start |-> inner_start(guess, old)]
        @@ (CASE m.variant = "ShootingBlockMN" ->
                     MN_call(m, Unpack3(m.k, input), inner_start(guess, old))
              [] m.variant = "ShootingBlockMNModel1" ->
                     M1_call(m, Unpack3(m.k, input), inner_start(guess, old))
              [] m.variant = "ShootingBlockMNModel2" ->
                     M2_call(m, M2_columns(disassemble(m.k, input, 0)), inner_start(guess, old)))

ComputeGradients ==
    /\ run.pc = "inner"
    /\ Len(run.results) < MaxCalls
    /\ \E guess \in Guesses : \E old \in Guesses :
          run' = [run EXCEPT !.results =
                                Append(@, compute_gradients_call(model, z, guess, old))]
    /\ UNCHANGED <<model, z, calls, codec>>

\* The models that solve for their parameters by an inner loop, at a state.
InitInner ==
    /\ \E k \in 1..MaxKCoupled : \E nonlinearity \in supported_nonlinearities :
          \/ \E variant \in {"ShootingBlockMN", "ShootingBlockMNModel1"} :
             \E K \in Regularizers : \E B \in 0..MaxB :
                /\ model = NewModel(variant, k, K[1], K[2], nonlinearity)
                /\ z \in States3(2 * k + B)
          \/ \E q \in States3(k) : \E p \in States3(k) :
             \E B \in 0..MaxB : \E x \in States3(B) :
                /\ model = NewModel("ShootingBlockMNModel2", k, Eye(FeatureDim * FeatureDim),
                                    Eye(FeatureDim), nonlinearity)
                /\ z = assemble(q, q, p, p, x, x)
    /\ calls = <<>>
    /\ codec = NoCodec
    /\ run = [pc |-> "inner", results |-> <<>>]

NextInner == ComputeGradients

SpecInner == InitInner /\ [][NextInner]_vars

\* ------------------------------------------------- model construction

\* The names handed to a constructor as nonlinearity ("None": no name given).
NonlinearityNames ==
    {"None", "identity", "relu", "tanh", "sigmoid", "softmax",
     "Tanh", "RELU", "Sigmoid", "elu", "swish", ""}

\* model = Class(batch_y0, Kbar, Kbar_b, nonlinearity).
Construct ==
    /\ model.pc = "requested"
    /\ model' = Constructed(model.request)
    /\ UNCHANGED <<z, calls, codec, run>>

InitNew ==
    /\ \E variant \in Variants : \E k \in 1..MaxK : \E K \in Regularizers :
       \E nonlinearity \in NonlinearityNames :
          model = [pc |-> "requested",
                   request |-> [variant |-> variant, k |-> k, Kbar |-> K[1],
                                Kbar_b |-> K[2], nonlinearity |-> nonlinearity]]
    /\ z = NoTensor
    /\ calls = <<>>
    /\ codec = NoCodec
    /\ run = NoRun

NextNew == Construct

SpecNew == InitNew /\ [][NextNew]_vars

\* --------------------------------------------------- the training script

\* choices=['l1','l2'] of the option --sim_norm.
sim_norm_choices == {"l1", "l2"}

\* The values the script is started with: --sim_norm, --test_freq and
\* --viz_freq as given on the command line, the others fixed.
CommandLines ==
    [sim_norm : {"l1", "l2", "linf"}, test_freq : {1, 2}, viz_freq : {1, 2},
     niters : {2}, nr_of_particles : {1}, batch_size : {1}, batch_validation_size : {1},
     batch_time : {MaxT}, shooting_norm_penalty : {Zero, <<1, 10>>},
     nonlinearity : {"tanh"}]

\* A parser whose --sim_norm takes any string.
parse_args_any_norm(argv) == [pc |-> "parsed", err |-> "none"]

\* parser.parse_args(): a value outside an option's choices ends the program
\* with the usage error.
parse_args(argv) ==
    IF argv.sim_norm \in sim_norm_choices
    THEN [pc |-> "parsed", err |-> "none"]
    ELSE [pc |-> "exited", err |-> "SystemExit: invalid choice"]

\* true_y, the data the batches are cut from (data_size x 1 x FeatureDim).
true_y == <<Row(1, 1), Row(-1, 0), Row(1, 1), Row(-1, 0)>>

data_size == Len(true_y)

\* Start indices drawn from all of the data.
BatchStarts_of_all_data(args, batch_size) ==
    { s \in [1..batch_size -> 0..(data_size - 1)] :
          \A a \in 1..batch_size : \A b \in 1..batch_size : a # b => s[a] # s[b] }

\* np.random.choice(np.arange(data_size - batch_time), batch_size,
\* replace=False): the start indices a batch can be drawn at.
BatchStarts(args, batch_size) ==
    { s \in [1..batch_size -> 0..(data_size - args.batch_time - 1)] :
          \A a \in 1..batch_size : \A b \in 1..batch_size : a # b => s[a] # s[b] }

\* get_batch for the start indices s: batch_y0, batch_t and batch_y.
get_batch(args, s) ==
    [y0 |-> Tensor(<<Len(s), 1, FeatureDim>>, [b \in 1..Len(s) |-> true_y[s[b] + 1]]),
     t  |-> [i \in 1..args.batch_time |-> i - 1],
     y  |-> Tensor(<<args.batch_time, Len(s), 1, FeatureDim>>,
                   [i \in 1..args.batch_time |-> [b \in 1..Len(s) |-> true_y[s[b] + i]]])]

NoBatch == [y0 |-> NoTensor, t |-> <<>>, y |-> NoTensor]

\* The states an integration can be in at a later time point: the particle
\* rows and the rows of the second data block hold one value, the rows of the
\* first data block another.
LaterStates(k, z0) ==
    { [i \in 1..z0.shape[1] |->
          IF i > 4 * k /\ i <= 4 * k + (z0.shape[1] - 4 * k) \div 2 THEN b ELSE a] :
      a \in RowVals, b \in RowVals }

\* odeint(shooting, z_0, batch_t): a trajectory of batch_time time points that
\* starts at z_0.
Solutions(k, z0, T) ==
    { Tensor(<<T>> \o z0.shape, [t \in 1..T |-> IF t = 1 THEN z0.el ELSE later]) :
      later \in LaterStates(k, z0) }

RAbs(x) == <<Abs(x[1]), x[2]>>

\* The root of a square number.
IntSqrt(n) == CHOOSE r \in 0..n : r * r = n

Sqrt(x) == <<IntSqrt(x[1]), IntSqrt(x[2])>>

\* Entry j of row b at time t of pred_y - batch_y.
Difference(pred_y, batch_y, t, b, j) == RSub(pred_y.el[t][b][1][j], batch_y.el[t][b][1][j])

\* torch.mean(torch.abs(pred_y - batch_y))
l1_loss(pred_y, batch_y) ==
    RMul(Q(1, Numel(pred_y)),
         RSum([t \in 1..pred_y.shape[1] |->
            RSum([b \in 1..pred_y.shape[2] |->
               RSum([j \in 1..FeatureDim |-> RAbs(Difference(pred_y, batch_y, t, b, j))])])]))

\* torch.mean(torch.norm(pred_y - batch_y, dim=3))
l2_loss(pred_y, batch_y) ==
    RMul(Q(1, pred_y.shape[1] * pred_y.shape[2] * pred_y.shape[3]),
         RSum([t \in 1..pred_y.shape[1] |->
            RSum([b \in 1..pred_y.shape[2] |->
               Sqrt(RSum([j \in 1..FeatureDim |->
                       RMul(Difference(pred_y, batch_y, t, b, j),
                            Difference(pred_y, batch_y, t, b, j))]))])]))

\* A prediction taken from the first particle block of the trajectory.
prediction_from_particles(m, temp_pred_y) == disassemble(m.k, temp_pred_y, 1)[1]

\* _,_,_,_,pred_y,_ = shooting.disassemble(temp_pred_y, dim=1)
prediction(m, temp_pred_y) == disassemble(m.k, temp_pred_y, 1)[5]

\* A penalty term that takes the closed-form parameters of the particles
\* q_params, p_params, as the models of one particle set do.
norm_penalty_of_particles(args, m) ==
    RMul(args.shooting_norm_penalty,
         penalty_of(m, compute_theta(m, Transpose12(q_params(m)), Transpose12(p_params(m))),
                    compute_bias(m, Transpose12(p_params(m))))[1][1])

\* args.shooting_norm_penalty * shooting.get_norm_penalty()
norm_penalty(args, m) == RMul(args.shooting_norm_penalty, get_norm_penalty(m))

\* The loss of a trajectory against the data y: the similarity term by
\* args.sim_norm, then the norm penalty; an error for any other norm.
loss_of(args, m, temp_pred_y, y, at) ==
    IF args.sim_norm = "l1"
    THEN [err |-> "none", at |-> at, trajectory |-> temp_pred_y, y |-> y,
          sim_norm |-> args.sim_norm,
          similarity |-> l1_loss(prediction(m, temp_pred_y), y),
          penalty |-> norm_penalty(args, m)]
    ELSE IF args.sim_norm = "l2"
    THEN [err |-> "none", at |-> at, trajectory |-> temp_pred_y, y |-> y,
          sim_norm |-> args.sim_norm,
          similarity |-> l2_loss(prediction(m, temp_pred_y), y),
          penalty |-> norm_penalty(args, m)]
    ELSE [err |-> "ValueError: Unknown norm", at |-> at, trajectory |-> temp_pred_y, y |-> y,
          sim_norm |-> args.sim_norm, similarity |-> Zero, penalty |-> Zero]

\* The script's position and locals: the parsed arguments, the iteration, the
\* calls it made in order, the batches, the trajectory, the losses computed.
Logged(r, op) == [r EXCEPT !.log = Append(@, [op |-> op, itr |-> r.itr])]

ParseArgs ==
    /\ run.pc = "start"
    /\ run' = [run EXCEPT !.pc = parse_args(run.args).pc, !.err = parse_args(run.args).err]
    /\ UNCHANGED <<model, z, calls, codec>>

\* The particles torch.randn gives a model built with
\* only_random_initialization=True.
InitialParticles(K) == {Tensor(<<K, 1, FeatureDim>>, [i \in 1..K |-> Row(1, 0)])}

\* A script that draws a new validation batch at every validation.
validate_with_random_batch_each_time_on == TRUE

\* validate_with_random_batch_each_time = False
validate_with_random_batch_each_time == FALSE

\* The script up to its loop: the model from a first batch, with random
\* particles, and the validation batch.
Setup ==
    /\ run.pc = "parsed"
    /\ \E particles \in InitialParticles(run.args.nr_of_particles) :
          model' = NewModel("ShootingBlockMNModel2", run.args.nr_of_particles,
                            Eye(FeatureDim * FeatureDim), Eye(FeatureDim),
                            run.args.nonlinearity)
                       @@ [q1_params |-> particles, p1_params |-> particles,
                           q2_params |-> particles, p2_params |-> particles]
    /\ \E s \in BatchStarts(run.args, run.args.batch_validation_size) :
          run' = [run EXCEPT !.pc = "zero_grad", !.val_batch = get_batch(run.args, s)]
    /\ UNCHANGED <<z, calls, codec>>

\* optimizer.zero_grad()
ZeroGrad ==
    /\ run.pc = "zero_grad"
    /\ run' = [Logged(run, "zero_grad") EXCEPT !.pc = "get_batch"]
    /\ UNCHANGED <<model, z, calls, codec>>

\* batch_y0, batch_t, batch_y = get_batch()
GetBatch ==
    /\ run.pc = "get_batch"
    /\ \E s \in BatchStarts(run.args, run.args.batch_size) :
          run' = [Logged(run, "get_batch") EXCEPT !.pc = "visualize_batch",
                                                  !.batch = get_batch(run.args, s)]
    /\ UNCHANGED <<model, z, calls, codec>>

\* if itr % args.test_freq == 0: if itr % args.viz_freq == 0: visualize_batch(...)
VisualizeBatch ==
    /\ run.pc = "visualize_batch"
    /\ run' = [(IF run.itr % run.args.test_freq = 0 /\ run.itr % run.args.viz_freq = 0
                THEN Logged(run, "visualize_batch") ELSE run)
               EXCEPT !.pc = "get_initial_condition"]
    /\ UNCHANGED <<model, z, calls, codec>>

\* z_0 = shooting.get_initial_condition(x=batch_y0)
TrainInitialCondition ==
    /\ run.pc = "get_initial_condition"
    /\ z' = get_initial_condition(model, run.batch.y0)
    /\ run' = [Logged(run, "get_initial_condition") EXCEPT !.pc = "odeint"]
    /\ UNCHANGED <<model, calls, codec>>

\* temp_pred_y = odeint(shooting, z_0, batch_t, ...)
Odeint ==
    /\ run.pc = "odeint"
    /\ \E temp_pred_y \in Solutions(model.k, z, run.args.batch_time) :
          run' = [Logged(run, "odeint") EXCEPT !.pc = "loss", !.temp_pred_y = temp_pred_y]
    /\ UNCHANGED <<model, z, calls, codec>>

\* A loss that hands over to the optimizer step at once.
lost_without_backward(r, l) ==
    IF l.err = "none"
    THEN [Logged(r, "loss") EXCEPT !.pc = "step", !.losses = Append(@, l)]
    ELSE [r EXCEPT !.pc = "failed", !.err = l.err]

\* The loss of the iteration; an unknown norm raises and ends the program.
lost(r, l) ==
    IF l.err = "none"
    THEN [Logged(r, "loss") EXCEPT !.pc = "backward", !.losses = Append(@, l)]
    ELSE [r EXCEPT !.pc = "failed", !.err = l.err]

Loss ==
    /\ run.pc = "loss"
    /\ run' = lost(run, loss_of(run.args, model, run.temp_pred_y, run.batch.y, "training"))
    /\ UNCHANGED <<model, z, calls, codec>>

\* loss.backward()
LossBackward ==
    /\ run.pc = "backward"
    /\ run' = [Logged(run, "backward") EXCEPT !.pc = "step"]
    /\ UNCHANGED <<model, z, calls, codec>>

\* optimizer.step()
Step ==
    /\ run.pc = "step"
    /\ \E target \in StepTargets(model.k) : model' = Stepped(model, target)
    /\ run' = [Logged(run, "step") EXCEPT !.pc = "validate"]
    /\ UNCHANGED <<z, calls, codec>>

\* The end of an iteration: the next one, or the end of the loop.
next_iteration(r) ==
    [r EXCEPT !.itr = @ + 1, !.pc = IF r.itr + 1 < r.args.niters THEN "zero_grad" ELSE "done"]

\* if validate_with_random_batch_each_time: val_batch_y0, val_batch_t,
\* val_batch_y = get_batch(); otherwise the batch drawn before the loop.
ValidationBatches(r) ==
    IF validate_with_random_batch_each_time
    THEN {get_batch(r.args, s) : s \in BatchStarts(r.args, r.args.batch_size)}
    ELSE {r.val_batch}

\* The validation of an iteration with itr % test_freq == 0, on the
\* validation batch drawn before the loop, val_pred being the trajectory
\* odeint returned; then visualize when itr % viz_freq == 0.
validated(r, l) ==
    IF l.err # "none" THEN [r EXCEPT !.pc = "failed", !.err = l.err]
    ELSE next_iteration([(IF r.itr % r.args.viz_freq = 0
                          THEN Logged(Logged(r, "validate"), "visualize")
                          ELSE Logged(r, "validate"))
                         EXCEPT !.losses = Append(@, l)])

Validate ==
    /\ run.pc = "validate"
    /\ IF run.itr % run.args.test_freq = 0
       THEN \E val_batch \in ValidationBatches(run) :
            \E val_pred \in Solutions(model.k, get_initial_condition(model, val_batch.y0),
                                      Len(val_batch.t)) :
               run' = validated([run EXCEPT !.val_batch = val_batch],
                                loss_of(run.args, model, val_pred, val_batch.y, "validation"))
       ELSE run' = next_iteration(run)
    /\ UNCHANGED <<model, z, calls, codec>>

InitTrain ==
    /\ model = [variant |-> "none"]
    /\ z = NoTensor
    /\ calls = <<>>
    /\ codec = NoCodec
    /\ \E argv \in CommandLines :
          run = [pc |-> "start", args |-> argv, err |-> "none", itr |-> 0, log |-> <<>>,
                 batch |-> NoBatch, val_batch |-> NoBatch, temp_pred_y |-> NoTensor,
                 losses |-> <<>>]

NextTrain ==
    \/ ParseArgs
    \/ Setup
    \/ ZeroGrad
    \/ GetBatch
    \/ VisualizeBatch
    \/ TrainInitialCondition
    \/ Odeint
    \/ Loss
    \/ LossBackward
    \/ Step
    \/ Validate

SpecTrain == InitTrain /\ [][NextTrain]_vars

\* ------------------------------------------------------------ get_batch

\* Largest batch_time and batch_size get_batch is called with.
MaxBatch == 5

\* np.random.choice(np.arange(n), size, replace=False) raises ValueError when
\* the sample is larger than the population; np.arange(n) is empty for n <= 0,
\* and no sample may be taken from it.
random_choice_ok(n, size) == size <= Max(n, 0)

\* torch.stack raises RuntimeError on an empty list of tensors.
stack_ok(T) == T >= 1

\* true_y[s + i] raises IndexError for an index past the data.
indices_ok(args, s) ==
    \A b \in 1..Len(s) : \A i \in 0..(args.batch_time - 1) : s[b] + i <= data_size - 1

\* get_batch(batch_size) with the start indices s drawn: the batch, or the
\* error of the first statement that fails.
get_batch_drawn(args, s) ==
    IF ~indices_ok(args, s) THEN [pc |-> "raised", err |-> "IndexError", s |-> s]
    ELSE IF ~stack_ok(args.batch_time)
    THEN [pc |-> "raised", err |-> "RuntimeError: stack", s |-> s]
    ELSE [pc |-> "returned", err |-> "none", s |-> s, batch |-> get_batch(args, s)]

\* if batch_size is None: batch_size = args.batch_size; given is <<>> for
\* None, <<n>> for the argument n.
batch_size_of(args, given) == IF given = <<>> THEN args.batch_size ELSE given[1]

\* The outcomes of get_batch(batch_size).
get_batch_outcomes(args, batch_size) ==
    IF ~random_choice_ok(data_size - args.batch_time, batch_size)
    THEN {[pc |-> "raised", err |-> "ValueError: choice", s |-> <<>>]}
    ELSE {get_batch_drawn(args, s) : s \in BatchStarts(args, batch_size)}

CallGetBatch ==
    /\ run.pc = "get_batch_call"
    /\ \E outcome \in get_batch_outcomes(run.args, batch_size_of(run.args, run.given)) :
          run' = [run EXCEPT !.pc = outcome.pc, !.result = outcome]
    /\ UNCHANGED <<model, z, calls, codec>>

InitBatch ==
    /\ model = [variant |-> "none"]
    /\ z = NoTensor
    /\ calls = <<>>
    /\ codec = NoCodec
    /\ \E batch_time \in 0..MaxBatch : \E batch_size \in 1..2 :
       \E given \in {<<>>} \cup {<<n>> : n \in 0..MaxBatch} :
          run = [pc |-> "get_batch_call",
                 args |-> [batch_time |-> batch_time, batch_size |-> batch_size],
                 given |-> given, result |-> [pc |-> "none"]]

NextBatch == CallGetBatch

SpecBatch == InitBatch /\ [][NextBatch]_vars

\* ----------------------------------------------------------- merge_args

\* Python values: the type's name and the value's repr.
PyNone == <<"NoneType", "None">>

PyTrue == <<"bool", "True">>

PyFalse == <<"bool", "False">>

\* The keys of the dictionaries handed to merge_args.
MergeKeys == {"viz", "niters", "fcn"}

\* The values of a run_args_template and of a swept parameter set; 1 and
\* 'True' are not the object True.
TemplateValues == {PyNone, <<"int", "300">>}

SweptValues == {PyTrue, PyFalse, <<"int", "1">>, <<"str", "'True'">>}

\* The dictionaries with keys among K and values in V.
Dicts(K, V) == UNION {[D -> V] : D \in SUBSET K}

\* d[k] = v
SetItem(d, k, v) == [j \in DOMAIN d \cup {k} |-> IF j = k THEN v ELSE d[j]]

\* merged_args = run_args_template, without a copy: the two names are one dictionary.
same_object(d) == [aliased |-> TRUE, value |-> d]

\* copy.deepcopy(run_args_template): a new dictionary with equal items.
deepcopy(d) == [aliased |-> FALSE, value |-> d]

\* The body of the loop of merge_args for the key k.
merge_item(merged, k, v) ==
    IF v = PyTrue \/ v = PyFalse
    THEN IF v = PyTrue THEN SetItem(merged, k, PyNone) ELSE merged
    ELSE SetItem(merged, k, v)

\* for k in add_args, over the keys left.
RECURSIVE merge_loop(_, _, _)
merge_loop(merged, add_args, keys) ==
    IF keys = {} THEN merged
    ELSE LET k == CHOOSE k \in keys : TRUE
         IN  merge_loop(merge_item(merged, k, add_args[k]), add_args, keys \ {k})

\* merge_args: what it returns, and run_args_template as the call leaves it.
merge_args_from(copy, run_args_template, add_args) ==
    [merged |-> merge_loop(copy.value, add_args, DOMAIN add_args),
     template |-> IF copy.aliased
                  THEN merge_loop(copy.value, add_args, DOMAIN add_args)
                  ELSE run_args_template]

merge_args(run_args_template, add_args) ==
    merge_args_from(deepcopy(run_args_template), run_args_template, add_args)

MergeArgs ==
    /\ run.pc = "merge_args"
    /\ run' = [run EXCEPT !.pc = "merged",
                          !.result = merge_args(run.run_args_template, run.add_args)]
    /\ UNCHANGED <<model, z, calls, codec>>

InitMerge ==
    /\ model = [variant |-> "none"]
    /\ z = NoTensor
    /\ calls = <<>>
    /\ codec = NoCodec
    /\ \E template \in Dicts(MergeKeys, TemplateValues) :
       \E add_args \in Dicts(MergeKeys, SweptValues) :
          run = [pc |-> "merge_args", run_args_template |-> template,
                 add_args |-> add_args, result |-> [merged |-> <<>>, template |-> <<>>]]

NextMerge == MergeArgs

SpecMerge == InitMerge /\ [][NextMerge]_vars

\* ------------------------------------------------------------- claims

\* The blocks the coupled model's forward call c put into its output, in the
\* layout of the input.
OutputBlocks(c) == disassemble(model.k, c.out, 0)

\* C1: in every forward call of the coupled model the output has the input's
\* shape, and the output blocks at the positions of q1, q2, p1, p2, x1 and x2
\* are the derivatives compute_gradients computed for q1, q2, p1, p2, x1 and
\* x2: no two blocks are exchanged on the way.
C1_OutputMirrorsLayout ==
    \A i \in 1..Len(calls) :
        model.variant = "ShootingBlockMNModel2" =>
            /\ calls[i].out.shape = calls[i].input.shape
            /\ OutputBlocks(calls[i]) =
                   << Transpose12(calls[i].cg.dot_q1), Transpose12(calls[i].cg.dot_q2),
                      Transpose12(calls[i].cg.dot_p1), Transpose12(calls[i].cg.dot_p2),
                      Transpose12(calls[i].cg.dot_x1), Transpose12(calls[i].cg.dot_x2) >>

\* A state of leading size at least 4K was disassembled along axis 0 and the
\* blocks assembled again.
RoundTripDim0 ==
    /\ codec.pc # "idle"
    /\ codec.form = "state"
    /\ codec.dim = 0
    /\ codec.orig_tensor.shape[1] >= 4 * model.k
    /\ codec.ops = 2
    /\ codec.last = "assemble"

\* The rows of the six blocks of a tuple, one after the other.
BlockRows(b) == b[1].el \o b[2].el \o b[3].el \o b[4].el \o b[5].el \o b[6].el

\* C2: assemble(*disassemble(s, dim=0)) is s, row for row, for every state s
\* of leading size at least 4K, the data part odd or even: the six blocks are
\* contiguous, in order, do not overlap and cover every row.
C2_RoundTripLeadingAxis ==
    RoundTripDim0 =>
        /\ codec.pc = "assembled"
        /\ codec.tensor = codec.orig_tensor
        /\ BlockRows(codec.blocks) = codec.orig_tensor.el
        /\ \A i \in 1..4 : codec.blocks[i].shape[1] = model.k

\* C2 witness: the round trip of a state with an odd data part returned it.
C2_Witness ==
    /\ RoundTripDim0
    /\ (codec.orig_tensor.shape[1] - 4 * model.k) % 2 = 1
    /\ codec.blocks[5].shape[1] + 1 = codec.blocks[6].shape[1]
    /\ codec.tensor = codec.orig_tensor

\* C3: for every trajectory s of shape [time, 4K+2B, ...], disassemble(s, dim=1)
\* followed by assemble yields s again, with the same shape and entries.
C3_RoundTripSecondaryAxis ==
    ( /\ codec.pc # "idle"
      /\ codec.form = "trajectory"
      /\ codec.dim = 1
      /\ codec.orig_tensor.shape[2] >= 4 * model.k
      /\ (codec.orig_tensor.shape[2] - 4 * model.k) % 2 = 0
      /\ codec.ops = 2 )
    => /\ codec.pc = "assembled"
       /\ codec.tensor = codec.orig_tensor

\* Six blocks, K rows in each particle block and B rows in each data block,
\* were assembled and the result disassembled along axis 0.
UnpackAfterPack ==
    /\ codec.pc # "idle"
    /\ codec.form = "blocks"
    /\ codec.dim = 0
    /\ codec.orig_blocks[5].shape[1] = codec.orig_blocks[6].shape[1]
    /\ codec.ops = 2
    /\ codec.last = "disassemble"

\* C4: disassemble(assemble(q1,q2,p1,p2,x1,x2), dim=0) returns exactly
\* (q1,q2,p1,p2,x1,x2) for particle blocks of K rows and data blocks of B rows
\* each, B >= 0.
C4_UnpackAfterPack ==
    UnpackAfterPack =>
        /\ codec.pc = "disassembled"
        /\ codec.blocks = codec.orig_blocks

\* C4 witness: the round trip of blocks with different, non-empty data blocks
\* returned them.
C4_Witness ==
    /\ UnpackAfterPack
    /\ codec.orig_blocks[5].shape[1] >= 1
    /\ codec.orig_blocks[5] # codec.orig_blocks[6]
    /\ codec.orig_blocks[1] # codec.orig_blocks[2]
    /\ codec.blocks = codec.orig_blocks

\* C5: disassemble called with an axis other than 0 or 1 raises the ValueError
\* and returns no blocks; called with axis 0 or 1 it does not raise it and
\* returns six blocks.
C5_InvalidAxis ==
    (codec.pc # "idle" /\ codec.last = "disassemble") =>
        IF codec.dim \in {0, 1}
        THEN codec.err # "ValueError" /\ codec.pc = "disassembled" /\ Len(codec.blocks) = 6
        ELSE codec.err = "ValueError" /\ codec.pc = "failed" /\ codec.blocks = <<>>

\* C5 witness: a call with an axis beyond 1 failed with the ValueError.
C5_Witness ==
    /\ codec.pc # "idle"
    /\ codec.last = "disassemble"
    /\ codec.dim > 1
    /\ codec.err = "ValueError"
    /\ codec.blocks = <<>>

\* C6: two forward calls with the same state return the same output, whatever
\* calls came before or between them and whatever guess the inner solve drew.
C6_Idempotent ==
    \A i \in 1..Len(calls) : \A j \in 1..Len(calls) :
        calls[i].input = calls[j].input => calls[i].out = calls[j].out

\* C7: in the coupled model the parameters that give the derivative of q1
\* (theta1, bias1) depend only on (p2, q2), and those that give the derivative
\* of q2 (theta2, bias2) only on (p1, q1): two calls that agree on the pair,
\* started from one guess, derive the same parameters.
C7_ParametersFromOtherSet ==
    \A i \in 1..Len(calls) : \A j \in 1..Len(calls) :
        (model.variant = "ShootingBlockMNModel2" /\ calls[i].guess = calls[j].guess) =>
            /\ (calls[i].p2 = calls[j].p2 /\ calls[i].q2 = calls[j].q2) =>
                   /\ calls[i].cg.theta1 = calls[j].cg.theta1
                   /\ calls[i].cg.bias1 = calls[j].cg.bias1
            /\ (calls[i].p1 = calls[j].p1 /\ calls[i].q1 = calls[j].q1) =>
                   /\ calls[i].cg.theta2 = calls[j].cg.theta2
                   /\ calls[i].cg.bias2 = calls[j].cg.bias2

\* C8: for every nonlinearity, the dot_p ShootingBlock.forward computes in
\* closed form, -dnl(q) * (theta^T p), is the dot_p ShootingBlock2.advect_p
\* derives by differentiation from the same p, q, theta and bias.
C8_CoStateAgreement ==
    \A i \in 1..Len(calls) :
        model.variant = "ShootingBlock" =>
            calls[i].dot_p = advect_p(model, calls[i].p, calls[i].q, calls[i].theta, calls[i].bias)

\* The calls of the models that derive their parameters in closed form.
ClosedFormCalls ==
    IF model.variant \in {"ShootingBlock", "ShootingBlock2"} THEN 1..Len(calls) ELSE {}

\* Entry (i, j) of p_k nl(q_k)^T for particle k of a call: q and p hold the
\* particles as columns.
Outer(c, k, i, j) == RMul(c.p.el[k][i][1], Apply(model.nl, c.q.el[k][j][1]))

\* Entry (i, j) of T = -(1/K) sum_k p_k nl(q_k)^T.
CrossTerm(c, i, j) ==
    IF Evaluated(c) /\ Evaluated(i) /\ Evaluated(j)
    THEN RNeg(RMul(Q(1, model.k), RSum([k \in 1..model.k |-> Outer(c, k, i, j)])))
    ELSE Zero

\* Entry i of -(1/K) sum_k p_k.
MeanMomentum(c, i) ==
    IF Evaluated(c) /\ Evaluated(i)
    THEN RNeg(RMul(Q(1, model.k), RSum([k \in 1..model.k |-> c.p.el[k][i][1]])))
    ELSE Zero

\* Entry (i, j) of reshape(Kbar vec(T)), vec taking T row by row.
ThetaEntry(c, i, j) ==
    IF Evaluated(c) /\ Evaluated(i) /\ Evaluated(j)
    THEN RSum([m \in 1..(model.d * model.d) |->
                  RMul(model.Kbar[(i - 1) * model.d + j][m],
                       CrossTerm(c, ((m - 1) \div model.d) + 1, ((m - 1) % model.d) + 1))])
    ELSE Zero

\* Entry i of Kbar_b (-(1/K) sum_k p_k).
BiasEntry(c, i) ==
    IF Evaluated(c) /\ Evaluated(i)
    THEN RSum([m \in 1..model.d |-> RMul(model.Kbar_b[i][m], MeanMomentum(c, m))])
    ELSE Zero

ThetaObjective(c, theta) ==
    IF Evaluated(c) /\ Evaluated(theta)
    THEN RSum([k \in 1..model.k |->
             RSum([e \in 1..(model.d * model.d) |->
                 LET i == ((e - 1) \div model.d) + 1
                     j == ((e - 1) % model.d) + 1
                     r == RAdd(Outer(c, k, i, j), theta[i][j])
                 IN  RMul(r, r)])])
    ELSE Zero

\* sum_k ||p_k + b||^2 of a call's particles.
BiasObjective(c, b) ==
    IF Evaluated(c) /\ Evaluated(b)
    THEN RSum([k \in 1..model.k |->
             RSum([i \in 1..model.d |->
                 LET r == RAdd(c.p.el[k][i][1], b[i][1]) IN RMul(r, r)])])
    ELSE Zero

\* The steps by which a candidate differs from the derived parameter.
Steps == {<<1, 16>>, <<-1, 1>>}

\* The candidates compared with a derived parameter A: A moved by a step in
\* one entry, A moved by a step in every entry, and zero.
Candidates(A) ==
    {[A EXCEPT ![i][j] = RAdd(@, s)] : i \in 1..NRows(A), j \in 1..NCols(A), s \in Steps}
        \cup {MAdd(A, MScale(s, MApply("didentity", A))) : s \in Steps}
        \cup {MScale(Zero, A)}

Recognized(request) ==
    LET name == IF request.nonlinearity = "None" THEN "identity"
                ELSE Lower(request.nonlinearity)
    IN  \/ name \in {"identity", "relu", "tanh", "sigmoid"}
        \/ name = "softmax" /\ request.variant = "ShootingModel_1"

NamedActivation(request) ==
    IF request.nonlinearity = "None" THEN "identity" ELSE Lower(request.nonlinearity)

\* The points at which a bound pair is compared, and those among them where
\* the activation has a derivative (relu has none at 0).
SamplePoints == {<<-1, 1>>, <<0, 1>>, <<1, 1>>}

Differentiable(fname, x) == ~(fname = "relu" /\ x = Zero)

\* C11: a constructor called with a recognized name leaves a model whose nl
\* is the named activation and whose dnl is the derivative of that activation
\* (identity, relu, tanh, sigmoid in every class, softmax in ShootingModel_1).
C11_RegistryPairs ==
    (model.pc # "requested" /\ Recognized(model.request)) =>
        /\ model.pc = "constructed"
        /\ model.object.nl = NamedActivation(model.request)
        /\ \A x \in SamplePoints :
               Differentiable(model.object.nl, x) =>
                   Apply(model.object.dnl, x) = Backward(model.object.nl, x)

\* C12: a constructor called with a name outside the recognized set ends with
\* the unsupported-nonlinearity error and leaves no model; called with a
\* recognized name it does not raise that error.
C12_UnsupportedName ==
    model.pc # "requested" =>
        IF Recognized(model.request)
        THEN model.err # "ValueError: Unsupported nonlinearity"
        ELSE model.pc = "failed" /\ model.err = "ValueError: Unsupported nonlinearity"

\* Row i (1-based) of the output a single-particle-set model owes for call c:
\* the derivative of row i of the input, a particle position for i <= K, a
\* co-state for K < i <= 2K and a data point beyond.
OwedRow(c, i) ==
    LET k   == model.k
        col == MT(c.input.el[i])
    IN  IF model.variant = "ShootingBlockMNModel1"
        THEN IF i <= k THEN [transposed |-> [f |-> "advect_q", of |-> col, at |-> c.theta]]
             ELSE IF i <= 2 * k
             THEN [transposed |-> [f |-> "grad_q", of |-> <<col, MT(c.input.el[i - k])>>,
                                   at |-> c.theta]]
             ELSE [transposed |-> [f |-> "advect_x", of |-> col, at |-> c.theta]]
        ELSE IF i <= k \/ i > 2 * k
             THEN MT(MAdd(Mm(c.theta, MApply(model.nl, col)), c.bias))
             ELSE MT(c.dot_p.el[i - k])

\* C13: forward of ShootingBlock, ShootingBlock2, ShootingBlockMN and
\* ShootingBlockMNModel1 maps a state of leading size 2K+B, B >= 0, to an
\* output of the same shape: rows [0,K) hold dot_q, rows [K,2K) dot_p, rows
\* [2K,2K+B) dot_x, and row i is the derivative of row i of the input.
C13_SingleLayout ==
    \A n \in 1..Len(calls) :
        LET c == calls[n]
            k == model.k
            B == c.input.shape[1] - 2 * k
        IN  /\ c.out.shape = c.input.shape
            /\ c.dot_q.shape[1] = k /\ c.dot_p.shape[1] = k /\ c.dot_x.shape[1] = B
            /\ \A i \in 1..k : /\ c.q.el[i] = MT(c.input.el[i])
                                /\ c.p.el[i] = MT(c.input.el[k + i])
            /\ \A i \in 1..B : c.x.el[i] = MT(c.input.el[2 * k + i])
            /\ \A i \in 1..(2 * k + B) : c.out.el[i] = OwedRow(c, i)

\* C13 witness: a call on two particles and one data point returned five rows,
\* the co-state derivatives in rows 3 and 4 and different from the position
\* derivatives in rows 1 and 2.
C13_Witness ==
    /\ model.variant \in {"ShootingBlock", "ShootingBlock2", "ShootingBlockMN",
                          "ShootingBlockMNModel1"}
    /\ model.k = 2
    /\ Len(calls) >= 1
    /\ calls[1].input.shape[1] = 5
    /\ calls[1].out.shape[1] = 5
    /\ SliceSeq(calls[1].out.el, 2, 4) # SliceSeq(calls[1].out.el, 0, 2)
    /\ \A i \in 1..5 : calls[1].out.el[i] = OwedRow(calls[1], i)

\* The number a penalty stands for: the entry of the 1 x 1 tensor, or the
\* number itself in the classes that return 0.
PenaltyValue(m, v) == IF DerivesInClosedForm(m) THEN v[1][1] ELSE v

\* vec(theta)^T Kbar^-1 vec(theta) + b^T Kbar_b^-1 b, entry by entry.
QuadraticForm(Minv, v) ==
    RSum([i \in 1..Len(v) |->
        RSum([j \in 1..Len(v) |-> RMul(v[i], RMul(Minv[i][j], v[j]))])])

Vec(A) == [e \in 1..(NRows(A) * NCols(A)) |-> A[((e - 1) \div NCols(A)) + 1][((e - 1) % NCols(A)) + 1]]

\* C14: with the default identity regularizers get_norm_penalty returns a
\* value >= 0 in every class and for all particle parameters; in the classes
\* that derive theta and b in closed form it is
\* vec(theta)^T Kbar^-1 vec(theta) + b^T Kbar_b^-1 b of the derived theta, b.
C14_PenaltyNonNegative ==
    (run.pc = "object" /\ run.last = "get_norm_penalty") =>
        /\ (model.Kbar = Eye(model.d * model.d) /\ model.Kbar_b = Eye(model.d)) =>
               RLe(Zero, PenaltyValue(model, run.result))
        /\ DerivesInClosedForm(model) =>
               LET theta == compute_theta(model, Transpose12(model.q_params),
                                          Transpose12(model.p_params))
                   b     == compute_bias(model, Transpose12(model.p_params))
               IN  run.result = << << RAdd(QuadraticForm(model.inv_Kbar, Vec(theta)),
                                           QuadraticForm(model.inv_Kbar_b, Vec(b))) >> >>

\* C14 witness: a model of two particles under regularizers other than the
\* identity returned a positive penalty.
C14_Witness ==
    /\ run.pc = "object"
    /\ run.last = "get_norm_penalty"
    /\ DerivesInClosedForm(model)
    /\ model.k = 2
    /\ model.Kbar # Eye(model.d * model.d)
    /\ RLt(Zero, run.result[1][1])
    /\ run.result[1][1] =
           RAdd(QuadraticForm(model.inv_Kbar,
                              Vec(compute_theta(model, Transpose12(model.q_params),
                                                Transpose12(model.p_params)))),
                QuadraticForm(model.inv_Kbar_b,
                              Vec(compute_bias(model, Transpose12(model.p_params)))))

\* C17: Kbar, Kbar_b and their inverses are set by the constructor only: no
\* forward, compute_theta, compute_bias or get_norm_penalty call and no
\* optimizer step changes them, in any class.
C17_RegularizersImmutable ==
    [][ /\ model'.Kbar = model.Kbar
        /\ model'.Kbar_b = model.Kbar_b
        /\ model'.inv_Kbar = model.inv_Kbar
        /\ model'.inv_Kbar_b = model.inv_Kbar_b ]_vars

\* C17 witness: after a forward call and an optimizer step that moved the
\* particle parameters, the regularizers are those given to the constructor.
C17_Witness ==
    /\ run.pc = "object"
    /\ run.last = "step"
    /\ model.variant = "ShootingBlock"
    /\ model.number_of_calls = 1
    /\ Len(calls) = 1
    /\ Slice0(calls[1].input, 0, model.k) # model.q_params
    /\ model.Kbar = KbarSPD /\ model.inv_Kbar = KbarSPDInv
    /\ model.Kbar_b = KbarbSPD /\ model.inv_Kbar_b = KbarbSPDInv

ConfiguredPasses(variant) ==
    CASE variant = "ShootingBlockMN" -> 5
      [] variant = "ShootingBlockMNModel1" -> 20
      [] variant = "ShootingBlockMNModel2" -> 5

\* The loop of the call r went through exactly n updates of every parameter,
\* from the parameters the call started with.
PassedThrough(r, n) ==
    \A f \in DOMAIN r.traces :
        /\ Len(r.traces[f]) = n + 1
        /\ r.traces[f][1] = r.start[f]

\* The tuple the call r returned is taken at the last iterates of its loop.
FromLastIterate(m, r) ==
    CASE m.variant = "ShootingBlockMN" ->
           /\ r.cg.theta = r.traces.theta1[Len(r.traces.theta1)]
           /\ r.cg.bias = r.traces.bias1[Len(r.traces.bias1)]
           /\ r.cg.ret[1] = advect_x(m.nl, r.args.x, r.cg.theta, r.cg.bias)
           /\ r.cg.ret[3] = advect_q(m.nl, r.args.q, r.cg.theta, r.cg.bias)
      [] m.variant = "ShootingBlockMNModel1" ->
           /\ r.cg.last.guess = r.start
           /\ \A i \in 1..3 : \A e \in DOMAIN r.cg.ret[i].el :
                 r.cg.ret[i].el[e].at = r.cg.last
      [] m.variant = "ShootingBlockMNModel2" ->
           /\ \A f \in DOMAIN r.traces : r.cg[f] = r.traces[f][Len(r.traces[f])]
           /\ r.cg.dot_x1 = advect_x1(m, r.args.x2, r.cg.theta1, r.cg.bias1)
           /\ r.cg.dot_x2 = advect_x2(m, r.args.x1, r.cg.theta2, r.cg.bias2)
           /\ r.cg.dot_q1 = advect_q1(m, r.args.q2, r.cg.theta1, r.cg.bias1)
           /\ r.cg.dot_q2 = advect_q2(m, r.args.q1, r.cg.theta2, r.cg.bias2)

\* C19: every call of compute_gradients performs exactly the configured
\* number of parameter updates (5 in ShootingBlockMN, 20 in
\* ShootingBlockMNModel1, 5 in ShootingBlockMNModel2), converged or not, and
\* computes the derivatives it returns from the last iterate.
C19_FixedIterationCount ==
    run.pc = "inner" =>
        \A j \in 1..Len(run.results) :
            /\ IF model.variant = "ShootingBlockMNModel1"
               THEN run.results[j].cg.last.updates = ConfiguredPasses(model.variant)
               ELSE PassedThrough(run.results[j], ConfiguredPasses(model.variant))
            /\ FromLastIterate(model, run.results[j])

\* A call whose iterates stood still after the first update and whose loop
\* went on to the last pass all the same.
C19_Witness ==
    /\ run.pc = "inner"
    /\ model.variant = "ShootingBlockMN"
    /\ \E j \in 1..Len(run.results) :
          /\ Len(run.results[j].traces.theta1) = 6
          /\ run.results[j].traces.theta1[1] # run.results[j].traces.theta1[2]
          /\ run.results[j].traces.theta1[2] = run.results[j].traces.theta1[3]
          /\ run.results[j].traces.theta1[2] = run.results[j].traces.theta1[6]

\* C20: each call starts its loop from the guess drawn in that call; what it
\* returns depends on that guess and the particles only, not on the old_theta
\* and old_bias arguments and not on the parameters an earlier call ended with.
C20_ParametersNotCarried ==
    run.pc = "inner" =>
        \A j \in 1..Len(run.results) :
            /\ run.results[j].start = run.results[j].guess
            /\ \A f \in DOMAIN run.results[j].traces :
                  run.results[j].traces[f][1] = run.results[j].guess[f]
            /\ \A i \in 1..Len(run.results) :
                  run.results[i].guess = run.results[j].guess
                      => run.results[i].cg = run.results[j].cg

\* Two calls with the same draw and different old parameters, neither being
\* the draw, after a first call that ended with parameters other than the draw.
C20_Witness ==
    /\ run.pc = "inner"
    /\ model.variant = "ShootingBlockMN"
    /\ Len(run.results) >= 2
    /\ run.results[1].guess = run.results[2].guess
    /\ run.results[1].old # run.results[2].old
    /\ run.results[2].old # run.results[2].guess
    /\ run.results[1].cg.theta # run.results[2].guess.theta1

\* The rows of the first data block of a trajectory of the coupled model with
\* k particles per set, time point by time point.
X1Rows(k, trajectory) ==
    [t \in 1..trajectory.shape[1] |->
        [b \in 1..((trajectory.shape[2] - 4 * k) \div 2) |-> trajectory.el[t][4 * k + b]]]

\* C15: the similarity term of a training or validation loss depends only on
\* the rows of the first data block of the predicted trajectory: two losses
\* taken against the same data under the same norm, on trajectories that agree
\* on those rows at every time point, have the same similarity term.
C15_LossReadsDataBlock ==
    run.pc \in {"backward", "step", "validate", "zero_grad", "done"} =>
        \A i \in 1..Len(run.losses) : \A j \in 1..Len(run.losses) :
            (/\ X1Rows(model.k, run.losses[i].trajectory)
                    = X1Rows(model.k, run.losses[j].trajectory)
             /\ run.losses[i].y = run.losses[j].y
             /\ run.losses[i].sim_norm = run.losses[j].sim_norm)
                => run.losses[i].similarity = run.losses[j].similarity

\* A training loss and a validation loss against the same data whose
\* trajectories agree on the first data block and on nothing else at the
\* later time point, with a similarity term that is not zero.
C15_Witness ==
    /\ run.pc = "done"
    /\ \E i \in 1..Len(run.losses) : \E j \in 1..Len(run.losses) :
          /\ run.losses[i].at = "training"
          /\ run.losses[j].at = "validation"
          /\ run.losses[i].trajectory # run.losses[j].trajectory
          /\ run.losses[i].trajectory.el[2][1] # run.losses[j].trajectory.el[2][1]
          /\ X1Rows(model.k, run.losses[i].trajectory)
                 = X1Rows(model.k, run.losses[j].trajectory)
          /\ run.losses[i].y = run.losses[j].y
          /\ run.losses[i].similarity = run.losses[j].similarity
          /\ run.losses[i].similarity # Zero

\* C18 as stated: a run asked for a similarity norm other than 'l1' and 'l2'
\* ends in the unknown-norm error, raised by the loss computation of a
\* training iteration, with the model's parameters as that iteration found them.
C18_UnknownNormAtLoss ==
    (run.pc \in {"exited", "failed"} /\ run.args.sim_norm \notin {"l1", "l2"})
        => /\ run.pc = "failed"
           /\ run.err = "ValueError: Unknown norm"
           /\ \A e \in 1..Len(run.log) :
                 run.log[e].itr = run.itr => run.log[e].op \notin {"backward", "step"}

\* C18, amended: a run asked for a similarity norm other than 'l1' and 'l2'
\* never leaves the argument parser: it ends there with the parser's error,
\* before a model is built and before any training iteration, so no loss is
\* computed, no backward pass and no optimizer step is made, and the
\* unknown-norm error of the loss computation is never raised.
C18_UnknownNormAtParser ==
    run.args.sim_norm \notin {"l1", "l2"} =>
        /\ run.pc \in {"start", "exited"}
        /\ run.pc = "exited" => run.err = "SystemExit: invalid choice"
        /\ run.err # "ValueError: Unknown norm"
        /\ model.variant = "none"
        /\ run.log = <<>>
        /\ run.losses = <<>>

\* A run asked for another norm, ended by the parser.
C18_Witness ==
    /\ run.pc = "exited"
    /\ run.args.sim_norm \notin {"l1", "l2"}
    /\ run.err = "SystemExit: invalid choice"

\* The calls of iteration i the script has logged, in order, without the
\* calls of the visualization routines.
IterationOps(i) ==
    LET OfIteration(e) == e.itr = i /\ e.op \notin {"visualize_batch", "visualize"}
        entries == SelectSeq(run.log, OfIteration)
    IN  [n \in 1..Len(entries) |-> entries[n].op]

\* The calls of a training iteration, in the order the claim gives them.
TrainingOrder ==
    <<"zero_grad", "get_batch", "get_initial_condition", "odeint", "loss", "backward", "step">>

IsPrefix(s, t) == Len(s) <= Len(t) /\ \A n \in 1..Len(s) : s[n] = t[n]

\* C21: every training iteration makes, in this order, zero_grad, the batch
\* draw, the forward integration, the loss, one backward pass and one optimizer
\* step; the validation of an iteration with itr % test_freq = 0 comes after
\* that step and makes no backward pass and no optimizer step.
C21_IterationOrder ==
    run.pc \notin {"start", "exited", "parsed"} =>
        \A i \in 0..(run.args.niters - 1) :
            IF i < run.itr
            THEN IterationOps(i) = TrainingOrder
                     \o (IF i % run.args.test_freq = 0 THEN <<"validate">> ELSE <<>>)
            ELSE IF i = run.itr
            THEN IsPrefix(IterationOps(i), TrainingOrder)
            ELSE IterationOps(i) = <<>>

\* A finished run with one iteration that validated and one that did not.
C21_Witness ==
    /\ run.pc = "done"
    /\ run.itr = 2
    /\ IterationOps(0) = TrainingOrder \o <<"validate">>
    /\ IterationOps(1) = TrainingOrder

\* Iteration i has logged the call op.
Called(op, i) == \E n \in 1..Len(run.log) : run.log[n] = [op |-> op, itr |-> i]

\* C23: in every finished iteration itr with itr % viz_freq = 0 both
\* visualization routines were called, and in every finished iteration with
\* itr % test_freq = 0 the validation measures were computed.
C23_VisualizationFrequency ==
    run.pc \notin {"start", "exited", "parsed", "failed"} =>
        \A i \in 0..(run.itr - 1) :
            /\ i % run.args.viz_freq = 0
                   => Called("visualize_batch", i) /\ Called("visualize", i)
            /\ i % run.args.test_freq = 0 => Called("validate", i)

C28_ValidationBatchFixed ==
    [][/\ run.pc \notin {"start", "parsed"} => run'.val_batch = run.val_batch
       /\ (run.pc = "validate" /\ Len(run'.losses) > Len(run.losses))
              => run'.losses[Len(run'.losses)].y = run.val_batch.y]_vars

\* A finished run with two validations, each after a training iteration on a
\* batch other than the validation batch.
C28_Witness ==
    /\ run.pc = "done"
    /\ \E a \in 1..Len(run.losses) : \E b \in 1..Len(run.losses) :
          /\ a < b
          /\ run.losses[a].at = "validation"
          /\ run.losses[b].at = "validation"
          /\ run.losses[a].y = run.val_batch.y
          /\ run.losses[b].y = run.val_batch.y
    /\ run.batch.y # run.val_batch.y

\* C27 as stated: a call with batch_size <= data_size - batch_time returns a
\* batch of batch_size distinct start indices below data_size - batch_time,
\* reads only valid indices of the data, has batch_time time slices whose first
\* is batch_y0; a call with batch_size > data_size - batch_time raises.
C27_GetBatchInBounds ==
    run.pc \in {"returned", "raised"} =>
        LET size == batch_size_of(run.args, run.given)
            r    == run.result
        IN  IF size <= data_size - run.args.batch_time
            THEN /\ run.pc = "returned"
                 /\ Len(r.s) = size
                 /\ \A a \in 1..size : \A b \in 1..size : a # b => r.s[a] # r.s[b]
                 /\ \A b \in 1..size :
                       /\ 0 <= r.s[b] /\ r.s[b] < data_size - run.args.batch_time
                       /\ \A i \in 0..(run.args.batch_time - 1) : r.s[b] + i <= data_size - 1
                 /\ r.batch.y.shape[1] = run.args.batch_time
                 /\ r.batch.y.el[1] = r.batch.y0.el
            ELSE run.pc = "raised"

\* C27, amended: a call with batch_time >= 1 and 1 <= batch_size <=
\* data_size - batch_time returns a batch of batch_size distinct start indices
\* below data_size - batch_time, reads only valid indices of the data, has
\* batch_time time slices whose first is batch_y0; a call with batch_time >= 1
\* and batch_size >= 1 and batch_size > data_size - batch_time raises in the draw.
C27_GetBatchInBoundsOfCounts ==
    (/\ run.pc \in {"returned", "raised"}
     /\ run.args.batch_time >= 1
     /\ batch_size_of(run.args, run.given) >= 1) =>
        LET size == batch_size_of(run.args, run.given)
            r    == run.result
        IN  IF size <= data_size - run.args.batch_time
            THEN /\ run.pc = "returned"
                 /\ Len(r.s) = size
                 /\ \A a \in 1..size : \A b \in 1..size : a # b => r.s[a] # r.s[b]
                 /\ \A b \in 1..size :
                       /\ 0 <= r.s[b] /\ r.s[b] < data_size - run.args.batch_time
                       /\ \A i \in 0..(run.args.batch_time - 1) : r.s[b] + i <= data_size - 1
                 /\ r.batch.y.shape[1] = run.args.batch_time
                 /\ r.batch.y.el[1] = r.batch.y0.el
            ELSE run.pc = "raised" /\ r.err = "ValueError: choice"

\* A batch of two points over two time slices, drawn at the last two start
\* indices there are.
C27_Witness ==
    /\ run.pc = "returned"
    /\ run.args.batch_time = 2
    /\ run.result.s = <<1, 0>>
    /\ run.result.batch.y.shape = <<2, 2, 1, FeatureDim>>

\* C30: merge_args leaves run_args_template as it was; in what it returns a
\* swept key with value True has the value None, a swept key with value False
\* is as in the template (present there or not), every other swept key has
\* the swept value, and every key not swept has its template value.
C30_MergeArgs ==
    run.pc = "merged" =>
        LET t == run.run_args_template
            a == run.add_args
            m == run.result.merged
        IN  /\ run.result.template = t
            /\ DOMAIN m = DOMAIN t \cup {k \in DOMAIN a : a[k] # PyFalse}
            /\ \A k \in DOMAIN m :
                  m[k] = IF k \in DOMAIN a /\ a[k] = PyTrue THEN PyNone
                         ELSE IF k \in DOMAIN a /\ a[k] # PyFalse THEN a[k]
                         ELSE t[k]

\* A merge with a flag set, a flag cleared that the template holds, a value
\* that overrides the template's, and the template left as it was.
C30_Witness ==
    /\ run.pc = "merged"
    /\ DOMAIN run.add_args = MergeKeys
    /\ DOMAIN run.run_args_template = MergeKeys
    /\ run.add_args["viz"] = PyTrue
    /\ run.add_args["niters"] = PyFalse
    /\ run.add_args["fcn"] = <<"int", "1">>
    /\ run.run_args_template["viz"] = <<"int", "300">>
    /\ run.result.merged # run.run_args_template
    /\ run.result.template = run.run_args_template

\* forward of the two classes that derive their parameters in closed form.
ClosedFormForward(m, input) ==
    IF m.variant = "ShootingBlock" THEN ShootingBlock_forward(m, input)
    ELSE ShootingBlock2_forward(m, input)

\* The state input with the data point r added after its data block.
WithDataPoint(input, r) ==
    Tensor([input.shape EXCEPT ![1] = @ + 1], Append(input.el, r))

\* The call c gave the particles the derivatives that the call e gave them,
\* and gave its data points the derivatives e gave them.
SameForParticlesAndPoints(c, e) ==
    /\ e.dot_q = c.dot_q
    /\ e.dot_p = c.dot_p
    /\ \A a \in 1..c.x.shape[1] : e.dot_x.el[a] = c.dot_x.el[a]

\* C25: in ShootingBlock and ShootingBlock2 two calls on states with the same
\* q and p blocks give the same dot_q and dot_p whatever their x blocks are and
\* the same derivative to equal data points, and a data point added to the
\* state changes neither dot_q, dot_p nor the derivative of any other point.
C25_DataDoesNotReachParticles ==
    model.variant \in {"ShootingBlock", "ShootingBlock2"} =>
        /\ \A i \in 1..Len(calls) : \A j \in 1..Len(calls) :
              (calls[i].q = calls[j].q /\ calls[i].p = calls[j].p) =>
                  /\ calls[i].dot_q = calls[j].dot_q
                  /\ calls[i].dot_p = calls[j].dot_p
                  /\ \A a \in 1..calls[i].x.shape[1] : \A b \in 1..calls[j].x.shape[1] :
                        calls[i].x.el[a] = calls[j].x.el[b]
                            => calls[i].dot_x.el[a] = calls[j].dot_x.el[b]
        /\ calls # <<>> =>
              \A r \in RowVals :
                  SameForParticlesAndPoints(
                      calls[Len(calls)],
                      ClosedFormForward(model, WithDataPoint(calls[Len(calls)].input, r)))

\* Two calls on states that differ in their data point only, with derivatives
\* of the particles that are not zero and different derivatives of the points.
C25_Witness ==
    /\ model.variant \in {"ShootingBlock", "ShootingBlock2"}
    /\ Len(calls) = 2
    /\ calls[1].q = calls[2].q
    /\ calls[1].p = calls[2].p
    /\ calls[1].x.shape[1] = 1
    /\ calls[1].x # calls[2].x
    /\ calls[1].dot_x # calls[2].dot_x
    /\ calls[1].dot_p = calls[2].dot_p
    /\ calls[1].dot_p # TNeg(calls[1].dot_p)

\* The model is a ShootingBlockMN built with the identity regularizers.
IdentityRegularized ==
    /\ model.variant = "ShootingBlockMN"
    /\ model.Kbar = Eye(FeatureDim * FeatureDim)
    /\ model.Kbar_b = Eye(FeatureDim)

\* The first update of a loop lands on a point no later update moves.
StationaryAfterFirstStep(trace) ==
    /\ Len(trace) = MN_nr_of_fixed_point_iterations + 1
    /\ \A n \in 2..Len(trace) : trace[n] = trace[2]

\* C24: for a ShootingBlockMN with identity regularizers the first unit step
\* of the inner loop lands on the stationary point of the lagrangian, so the
\* parameters after the five steps, and with them the tuple compute_gradients
\* returns to forward, are the same whatever torch.randn drew as the guess.
C24_GuessIndependent ==
    (run.pc = "inner" /\ IdentityRegularized) =>
        /\ \A i \in 1..Len(run.results) :
              /\ StationaryAfterFirstStep(run.results[i].traces.theta1)
              /\ StationaryAfterFirstStep(run.results[i].traces.bias1)
              /\ run.results[i].cg.theta = PotGradTheta(model.nl, run.results[i].args.p,
                                                        run.results[i].args.q)
              /\ run.results[i].cg.bias = PotGradBias(run.results[i].args.p)
        /\ \A i \in 1..Len(run.results) : \A j \in 1..Len(run.results) :
              run.results[i].cg = run.results[j].cg

\* Two calls that started from different draws, neither of them the
\* stationary point, on particles that give a derivative that is not zero.
C24_Witness ==
    /\ run.pc = "inner"
    /\ IdentityRegularized
    /\ Len(run.results) = 2
    /\ run.results[1].start # run.results[2].start
    /\ \A i \in 1..2 :
          /\ run.results[i].traces.theta1[1] # run.results[i].traces.theta1[2]
          /\ run.results[i].traces.bias1[1] # run.results[i].traces.bias1[2]
    /\ run.results[1].cg.ret[2] # TNeg(run.results[1].cg.ret[2])

\* --------------------------------------------- the shapes of the inner solve

\* The largest feature dimension d a model is built for.
MaxFeatureDim == 4

\* What an operation on tensors leaves when only sizes are followed: a tensor
\* of a size, or the RuntimeError torch raises on sizes that do not fit.
ShapeError == [ok |-> FALSE, shape |-> <<>>]

Shaped(s) == [ok |-> TRUE, shape |-> s]

\* torch.mm of two matrices.
shape_mm(a, b) ==
    IF a.ok /\ b.ok /\ a.shape[2] = b.shape[1]
    THEN Shaped(<<a.shape[1], b.shape[2]>>) ELSE ShapeError

\* torch.matmul of a matrix with a batch of matrices.
shape_matmul(a, b) ==
    IF a.ok /\ b.ok /\ a.shape[2] = b.shape[2]
    THEN Shaped(<<b.shape[1], a.shape[1], b.shape[3]>>) ELSE ShapeError

\* torch.bmm of two batches of matrices.
shape_bmm(a, b) ==
    IF a.ok /\ b.ok /\ a.shape[1] = b.shape[1] /\ a.shape[3] = b.shape[2]
    THEN Shaped(<<a.shape[1], a.shape[2], b.shape[3]>>) ELSE ShapeError

\* A size with leading ones, as broadcasting aligns it with a batch.
Pad3(s) == IF Len(s) = 2 THEN <<1>> \o s ELSE s

\* The length two lengths broadcast to: a length of one takes the other's.
Stretch(m, n) == IF m = 1 THEN n ELSE m

\* a + b, a - b, a * b: elementwise with broadcasting.
shape_broadcast(a, b) ==
    IF /\ a.ok /\ b.ok
       /\ \A i \in 1..3 : \/ Pad3(a.shape)[i] = Pad3(b.shape)[i]
                          \/ Pad3(a.shape)[i] = 1
                          \/ Pad3(b.shape)[i] = 1
    THEN Shaped(IF Len(a.shape) = 2 /\ Len(b.shape) = 2
                THEN <<Stretch(a.shape[1], b.shape[1]), Stretch(a.shape[2], b.shape[2])>>
                ELSE [i \in 1..3 |-> Stretch(Pad3(a.shape)[i], Pad3(b.shape)[i])])
    ELSE ShapeError

\* a.view(size).
shape_view(a, size) ==
    IF a.ok /\ Prod(a.shape) = Prod(size) THEN Shaped(size) ELSE ShapeError

\* a.view(-1,1) and a.view(1,-1).
shape_view_col(a) == IF a.ok THEN Shaped(<<Prod(a.shape), 1>>) ELSE ShapeError

shape_view_row(a) == IF a.ok THEN Shaped(<<1, Prod(a.shape)>>) ELSE ShapeError

\* a.t() of a matrix and a.transpose(1,2) of a batch.
shape_t(a) == IF a.ok THEN Shaped(<<a.shape[2], a.shape[1]>>) ELSE ShapeError

shape_transpose(a) ==
    IF a.ok THEN Shaped(<<a.shape[1], a.shape[3], a.shape[2]>>) ELSE ShapeError

\* a.mean(dim=0) of a batch, and torch.mean(a), a one-element result.
shape_mean0(a) == IF a.ok THEN Shaped(<<a.shape[2], a.shape[3]>>) ELSE ShapeError

shape_mean(a) == IF a.ok THEN Shaped(<<1, 1>>) ELSE ShapeError

\* autograd.grad(value, variable): of the size of the variable.
shape_grad(value, variable) == IF value.ok THEN variable ELSE ShapeError

\* torch.cat of batches along their first dimension.
RECURSIVE shape_cat(_)
shape_cat(parts) ==
    IF Len(parts) = 1 THEN parts[1]
    ELSE IF /\ parts[1].ok /\ shape_cat(Tail(parts)).ok
            /\ Tail(parts[1].shape) = Tail(shape_cat(Tail(parts)).shape)
         THEN Shaped(<<parts[1].shape[1] + shape_cat(Tail(parts)).shape[1]>>
                         \o Tail(parts[1].shape))
         ELSE ShapeError

\* input[a:b, ...] of a state of n rows.
shape_rows(input, a, b) ==
    Shaped(<<Max(Min(b, input.shape[1]) - Min(a, input.shape[1]), 0)>>
               \o Tail(input.shape))

\* A parameter of the inner solve drawn with the feature dimension's size.
randn_theta_of_d(d) == Shaped(<<d, d>>)

\* torch.randn(2,2,requires_grad=True) and torch.randn(2,1,requires_grad=True):
\* the parameters every compute_gradients starts from.
randn_theta(d) == Shaped(<<2, 2>>)

randn_bias(d) == Shaped(<<2, 1>>)

\* theta.view(1,-1) inv_Kbar theta.view(-1,1) and bias.t() inv_Kbar_b bias.
penalty_shape(inv, param) ==
    shape_mm(shape_view_row(param), shape_mm(inv, shape_view_col(param)))

bias_penalty_shape(inv, bias) == shape_mm(shape_t(bias), shape_mm(inv, bias))

\* torch.matmul(theta, nl(q)) + bias: advect_q and advect_x of ShootingBlockMN,
\* advect_q1, advect_q2, advect_x1 and advect_x2 of ShootingBlockMNModel2.
advect_shape(q, theta, bias) == shape_broadcast(shape_matmul(theta, q), bias)

\* advect_q and advect_x of ShootingBlockMNModel1.
M1_advect_shape(q, theta1, bias1, theta2, bias2) ==
    advect_shape(advect_shape(q, theta2, bias2), theta1, bias1)

\* ShootingBlockMN.compute_lagrangian.
MN_lagrangian_shape(m, p, q, theta, bias) ==
    shape_broadcast(
        shape_broadcast(penalty_shape(m.inv_Kbar, theta),
                        bias_penalty_shape(m.inv_Kbar_b, bias)),
        shape_mean(shape_broadcast(p, advect_shape(q, theta, bias))))

\* ShootingBlockMNModel1.compute_lagrangian.
M1_lagrangian_shape(m, p, q, theta1, bias1, theta2, bias2) ==
    shape_broadcast(
        shape_broadcast(
            shape_broadcast(penalty_shape(m.inv_Kbar, theta1),
                penalty_shape(m.inv_Kbar, shape_broadcast(theta2, Shaped(<<2, 2>>)))),
            shape_broadcast(bias_penalty_shape(m.inv_Kbar_b, bias1),
                            bias_penalty_shape(m.inv_Kbar_b, bias2))),
        shape_mean(shape_broadcast(p, M1_advect_shape(q, theta1, bias1, theta2, bias2))))

\* ShootingBlockMNModel2.compute_lagrangian.
M2_lagrangian_shape(m, p1, q1, p2, q2, theta1, bias1, theta2, bias2) ==
    shape_broadcast(
        shape_broadcast(
            shape_broadcast(penalty_shape(m.inv_Kbar, theta1),
                            penalty_shape(m.inv_Kbar, theta2)),
            shape_broadcast(bias_penalty_shape(m.inv_Kbar_b, bias1),
                            bias_penalty_shape(m.inv_Kbar_b, bias2))),
        shape_broadcast(shape_mean(shape_broadcast(p1, advect_shape(q2, theta1, bias1))),
                        shape_mean(shape_broadcast(p2, advect_shape(q1, theta2, bias2)))))

\* The passes of a loop: the lagrangian is taken, and each parameter moves by
\* a gradient of its own size.
inner_pass_shape(lagrangian, param) ==
    shape_broadcast(param, shape_grad(lagrangian, param))

\* What a call of forward leaves: the size of the derivative or the error, and
\* the sizes of the parameters compute_gradients created, if it got there.
ShapeResult(out, created) ==
    [err |-> IF out.ok THEN "none" ELSE "RuntimeError: size mismatch",
     out |-> out, created |-> created]

\* ShootingBlockMN.compute_gradients and the cat forward returns.
MN_gradients_shape(m, x, p, q, theta, bias) ==
    shape_cat(<< shape_transpose(advect_shape(q, theta, bias)),
                 shape_transpose(shape_grad(MN_lagrangian_shape(m, p, q, theta, bias), q)),
                 shape_transpose(advect_shape(x, theta, bias)) >>)

\* compute_theta and compute_bias of ShootingBlockMN.
MN_compute_theta_shape(m, q, p) ==
    shape_view(shape_mm(m.Kbar, shape_view_col(shape_mean0(shape_bmm(p, shape_transpose(q))))),
               <<m.d, m.d>>)

MN_compute_bias_shape(m, p) == shape_mm(m.Kbar_b, shape_mean0(p))

\* ShootingBlockMN.forward: compute_theta, compute_bias, the three advections
\* with them, then compute_gradients.
MN_forward_shape(m, q, p, x) ==
    IF /\ advect_shape(x, MN_compute_theta_shape(m, q, p), MN_compute_bias_shape(m, p)).ok
       /\ shape_broadcast(p, advect_shape(q, MN_compute_theta_shape(m, q, p),
                                          MN_compute_bias_shape(m, p))).ok
    THEN ShapeResult(
             MN_gradients_shape(m, x, p, q,
                 inner_pass_shape(MN_lagrangian_shape(m, p, q, randn_theta(m.d), randn_bias(m.d)),
                                  randn_theta(m.d)),
                 inner_pass_shape(MN_lagrangian_shape(m, p, q, randn_theta(m.d), randn_bias(m.d)),
                                  randn_bias(m.d))),
             <<randn_theta(m.d), randn_bias(m.d)>>)
    ELSE ShapeResult(ShapeError, <<>>)

\* ShootingBlockMNModel1.forward.
M1_gradients_shape(m, x, p, q, theta1, bias1, theta2, bias2) ==
    shape_cat(<< shape_transpose(M1_advect_shape(q, theta1, bias1, theta2, bias2)),
                 shape_transpose(shape_grad(
                     M1_lagrangian_shape(m, p, q, theta1, bias1, theta2, bias2), q)),
                 shape_transpose(M1_advect_shape(x, theta1, bias1, theta2, bias2)) >>)

M1_first_lagrangian_shape(m, p, q) ==
    M1_lagrangian_shape(m, p, q, randn_theta(m.d), randn_bias(m.d),
                        randn_theta(m.d), randn_bias(m.d))

M1_forward_shape(m, q, p, x) ==
    ShapeResult(
        M1_gradients_shape(m, x, p, q,
            inner_pass_shape(M1_first_lagrangian_shape(m, p, q), randn_theta(m.d)),
            inner_pass_shape(M1_first_lagrangian_shape(m, p, q), randn_bias(m.d)),
            inner_pass_shape(M1_first_lagrangian_shape(m, p, q), randn_theta(m.d)),
            inner_pass_shape(M1_first_lagrangian_shape(m, p, q), randn_bias(m.d))),
        <<randn_theta(m.d), randn_bias(m.d), randn_theta(m.d), randn_bias(m.d)>>)

\* ShootingBlockMNModel2.forward.
M2_gradients_shape(m, x1, x2, p1, q1, p2, q2, theta1, bias1, theta2, bias2) ==
    shape_cat(<< shape_transpose(advect_shape(q2, theta1, bias1)),
                 shape_transpose(advect_shape(q1, theta2, bias2)),
                 shape_transpose(shape_grad(
                     M2_lagrangian_shape(m, p1, q1, p2, q2, theta1, bias1, theta2, bias2), q1)),
                 shape_transpose(shape_grad(
                     M2_lagrangian_shape(m, p1, q1, p2, q2, theta1, bias1, theta2, bias2), q2)),
                 shape_transpose(advect_shape(x2, theta1, bias1)),
                 shape_transpose(advect_shape(x1, theta2, bias2)) >>)

M2_first_lagrangian_shape(m, p, q) ==
    M2_lagrangian_shape(m, p, q, p, q, randn_theta(m.d), randn_bias(m.d),
                        randn_theta(m.d), randn_bias(m.d))

M2_forward_shape(m, q, p, x) ==
    ShapeResult(
        M2_gradients_shape(m, x, x, p, q, p, q,
            inner_pass_shape(M2_first_lagrangian_shape(m, p, q), randn_theta(m.d)),
            inner_pass_shape(M2_first_lagrangian_shape(m, p, q), randn_bias(m.d)),
            inner_pass_shape(M2_first_lagrangian_shape(m, p, q), randn_theta(m.d)),
            inner_pass_shape(M2_first_lagrangian_shape(m, p, q), randn_bias(m.d))),
        <<randn_theta(m.d), randn_bias(m.d), randn_theta(m.d), randn_bias(m.d)>>)

\* model(t, input) on a state of the sizes the model was built for: k rows for
\* each block of particles, the rest data, every row 1 x d, taken as columns.
forward_shape(m, input) ==
    CASE m.variant = "ShootingBlockMN" ->
             MN_forward_shape(m, shape_transpose(shape_rows(input, 0, m.k)),
                              shape_transpose(shape_rows(input, m.k, 2 * m.k)),
                              shape_transpose(shape_rows(input, 2 * m.k, input.shape[1])))
      [] m.variant = "ShootingBlockMNModel1" ->
             M1_forward_shape(m, shape_transpose(shape_rows(input, 0, m.k)),
                              shape_transpose(shape_rows(input, m.k, 2 * m.k)),
                              shape_transpose(shape_rows(input, 2 * m.k, input.shape[1])))
      [] m.variant = "ShootingBlockMNModel2" ->
             M2_forward_shape(m, shape_transpose(shape_rows(input, 0, m.k)),
                              shape_transpose(shape_rows(input, 2 * m.k, 3 * m.k)),
                              shape_transpose(shape_rows(input, 4 * m.k,
                                  4 * m.k + (input.shape[1] - 4 * m.k) \div 2)))

\* __init__ of the three classes: k and d are read off batch_y0, a regularizer
\* that is None becomes the identity of size d*d and d, and both are inverted.
ConstructedShapes(request) ==
    [pc |-> "constructed", variant |-> request.variant,
     k |-> request.batch_y0[1], d |-> request.batch_y0[3],
     Kbar |-> IF request.Kbar = <<>>
              THEN Shaped(<<request.batch_y0[3] * request.batch_y0[3],
                            request.batch_y0[3] * request.batch_y0[3]>>)
              ELSE Shaped(request.Kbar),
     Kbar_b |-> IF request.Kbar_b = <<>>
                THEN Shaped(<<request.batch_y0[3], request.batch_y0[3]>>)
                ELSE Shaped(request.Kbar_b),
     inv_Kbar |-> IF request.Kbar = <<>>
                  THEN Shaped(<<request.batch_y0[3] * request.batch_y0[3],
                                request.batch_y0[3] * request.batch_y0[3]>>)
                  ELSE Shaped(request.Kbar),
     inv_Kbar_b |-> IF request.Kbar_b = <<>>
                    THEN Shaped(<<request.batch_y0[3], request.batch_y0[3]>>)
                    ELSE Shaped(request.Kbar_b)]

\* model = Class(batch_y0, Kbar, Kbar_b).
ConstructShaped ==
    /\ run.pc = "shapes"
    /\ model.pc = "requested"
    /\ model' = ConstructedShapes(model.request)
    /\ UNCHANGED <<z, calls, codec, run>>

\* model(t, z): one evaluation of the right-hand side.
ForwardShaped ==
    /\ run.pc = "shapes"
    /\ model.pc = "constructed"
    /\ run.results = <<>>
    /\ run' = [run EXCEPT !.results = <<forward_shape(model, z)>>]
    /\ UNCHANGED <<model, z, calls, codec>>

\* The three classes with an inner solve, asked for with particles of k rows
\* of d features and with the regularizers given (4 x 4 and 2 x 2) or left
\* None, and a state of the particles and B data points.
InitShaped ==
    /\ \E variant \in {"ShootingBlockMN", "ShootingBlockMNModel1", "ShootingBlockMNModel2"} :
       \E k \in 1..MaxK : \E d \in 1..MaxFeatureDim : \E B \in 0..MaxB :
       \E Kbar \in {<<>>, <<4, 4>>} : \E Kbar_b \in {<<>>, <<2, 2>>} :
          /\ model = [pc |-> "requested",
                      request |-> [variant |-> variant, batch_y0 |-> <<k, 1, d>>,
                                   Kbar |-> Kbar, Kbar_b |-> Kbar_b]]
          /\ z = [shape |-> <<(IF variant = "ShootingBlockMNModel2"
                               THEN 4 * k + 2 * B ELSE 2 * k + B), 1, d>>]
    /\ calls = <<>>
    /\ codec = NoCodec
    /\ run = [pc |-> "shapes", results |-> <<>>]

NextShaped == ConstructShaped \/ ForwardShaped

SpecShaped == InitShaped /\ [][NextShaped]_vars

\* C29: the three classes with an inner solve create theta as 2 x 2 and bias
\* as 2 x 1 whatever the feature dimension d of the model is; forward returns
\* a derivative, of the size of the state, only for d = 2, and ends with an
\* error for every other d.
C29_FixedParameterShapes ==
    (run.pc = "shapes" /\ run.results # <<>>) =>
        /\ \A i \in 1..Len(run.results[1].created) :
              run.results[1].created[i] \in {Shaped(<<2, 2>>), Shaped(<<2, 1>>)}
        /\ model.d = 2 =>
              /\ run.results[1].err = "none"
              /\ run.results[1].out = Shaped(z.shape)
              /\ run.results[1].created # <<>>
        /\ model.d # 2 =>
              /\ run.results[1].err # "none"
              /\ ~run.results[1].out.ok

\* A model of three features with the default regularizers whose forward got
\* as far as creating the parameters and then failed.
C29_Witness ==
    /\ run.pc = "shapes"
    /\ run.results # <<>>
    /\ model.d = 3
    /\ model.Kbar = Shaped(<<9, 9>>)
    /\ run.results[1].created # <<>>
    /\ run.results[1].created[1] = Shaped(<<2, 2>>)
    /\ run.results[1].err # "none"

====
